---- MODULE Spec2Model ----
(***************************************************************************)
(* A model of the reorg plugin runtime.                                    *)
(*                                                                         *)
(*   Spec        the plugin Manager (internal/plugin/manager.go): a table  *)
(*               of loaded plugins behind a read/write lock, callers       *)
(*               running Load, Unload, Execute and ListLoaded concurrently,*)
(*               and the plugin subprocesses they spawn and kill.          *)
(*   SpecImport  the import state machine of the importer plugins          *)
(*               (cmd/reorg-plugin-obsidian, cmd/reorg-plugin-apple-notes) *)
(*               with the host callbacks it uses.                          *)
(***************************************************************************)
EXTENDS Integers, Sequences, FiniteSets, TLC

(***************************************************************************)
(* Bounds of the model.                                                    *)
(***************************************************************************)
\* Plugin processes spawned in one behaviour of the Manager alone.
MaxSpawns == 2

\* Plugin processes spawned in one behaviour of the Daemon.
MaxDaemonSpawns == 4

\* The goroutines calling into one Manager: a cron fire and a CLI command.
Callers == {"cron", "cli"}
NoCaller == "none"

(***************************************************************************)
(* The Manager's world: plugin names, executables, configurations.         *)
(***************************************************************************)
\* Names a caller may pass to the Manager.  "ghost" has no executable.
Names == {"notes", "obsidian", "ghost"}

\* Configuration maps a caller may pass to Load.
Configs == {"cfgA", "cfgB"}

\* findPluginPath: the executable reorg-plugin-<name> in the plugin
\* directory or on PATH; "" when there is none.
findPluginPath(name) ==
    CASE name = "notes"    -> "plugins/reorg-plugin-notes"
      [] name = "obsidian" -> "plugins/reorg-plugin-obsidian"
      [] name = "example"  -> "plugins/reorg-plugin-example"
      [] name = "manual"   -> "plugins/reorg-plugin-manual"
      [] OTHER             -> ""

\* The manifest a plugin executable returns from GetManifest.  A schedule is
\* the sequence of the space-separated fields of its cron expression; the
\* empty string has none.  "example" is the plugin of the SDK's package
\* documentation, whose schedule has five fields; "manual" is a plugin with
\* no schedule.
ManifestOf(name) ==
    CASE name = "notes"
           -> [Name |-> "apple-notes-importer",
               Schedule |-> <<"0", "*/15", "*", "*", "*", "*">>]
      [] name = "example"
           -> [Name |-> "my-plugin", Schedule |-> <<"*/15", "*", "*", "*", "*">>]
      [] name = "manual"
           -> [Name |-> "manual", Schedule |-> << >>]
      [] OTHER
           -> [Name |-> "obsidian-importer",
               Schedule |-> <<"0", "0", "*/6", "*", "*", "*">>]

\* The handshake the host expects (pkg/plugin: Handshake).
HostHandshake == [cookie |-> "reorg-plugin-v1", version |-> "1"]

\* What a spawned executable may answer in the handshake.
PluginHandshakes ==
    { HostHandshake,
      [cookie |-> "other", version |-> "1"],
      [cookie |-> "reorg-plugin-v1", version |-> "2"] }

\* go-plugin accepts the connection only when cookie and version match.
HandshakeOK(h) ==
    h.cookie = HostHandshake.cookie /\ h.version = HostHandshake.version

VARIABLES
    plugins,    \* Manager.plugins: name -> LoadedPlugin (a partial function)
    mu,         \* Manager.mu: the caller holding the exclusive lock, NoCaller if none
    procs,      \* the plugin processes spawned so far, by pid
    pc,         \* per caller: where it is in its Manager call
    call,       \* per caller: the call in progress (op, name, config, ...)
    cli,        \* per caller: pid of the goplugin client of this call, 0 if none
    ret         \* per caller: what the call that just returned gave back

mgrVars == <<plugins, mu, procs, pc, call, cli, ret>>

VARIABLES
    sched,      \* Daemon.scheduler: the cron engine and its entries
    jobs,       \* Daemon.jobs: name -> cron.EntryID
    frame,      \* per caller: the Daemon method in progress
    ticks       \* what the behaviour may still hold: scheduled fires, calls of
                \* Daemon methods, calls of Start

dmnVars == <<sched, jobs, frame, ticks>>

VARIABLES
    files,      \* the files under the host's state directory: path -> bytes
    written,    \* per plugin and key: the last SetState or DeleteState of that key
    kvret       \* what the last GetState, SetState or DeleteState returned

kvVars == <<files, written, kvret>>

VARIABLES
    foc         \* the plugins' FindOrCreateArea calls: the call of each plugin,
                \* the identifiers given out and the calls still to be made

focVars == <<foc>>

NoCall == [op |-> "none", name |-> "", config |-> "", spawns |-> 0, shutdownErr |-> FALSE,
           todo |-> {}]

\* The zero value of a Manifest.
NilManifest == [Name |-> "", Schedule |-> << >>]

NoRet == [op |-> "none", name |-> "", err |-> "", val |-> {}, manifest |-> NilManifest,
          pid |-> 0]

\* A process as started by client.Client().
NewProc(name, h) ==
    [ name |-> name, alive |-> TRUE, killed |-> FALSE, handshake |-> h,
      gotConfigure |-> FALSE, gotExecute |-> FALSE ]

MgrInit ==
    /\ plugins = << >>
    /\ mu = NoCaller
    /\ procs = << >>
    /\ pc = [t \in Callers |-> "idle"]
    /\ call = [t \in Callers |-> NoCall]
    /\ cli = [t \in Callers |-> 0]
    /\ ret = [t \in Callers |-> NoRet]

(***************************************************************************)
(* Helpers on the plugin table and the process table.                      *)
(***************************************************************************)
\* m.plugins[name] = rec
PutPlugin(name, rec) ==
    [n \in (DOMAIN plugins) \cup {name} |-> IF n = name THEN rec ELSE plugins[n]]

\* delete(m.plugins, name)
DeletePlugin(name) ==
    [n \in (DOMAIN plugins) \ {name} |-> plugins[n]]

\* client.Kill(): the process is terminated; harmless when it is already dead.
Kill(ps, pid) ==
    [ps EXCEPT ![pid].alive = FALSE, ![pid].killed = TRUE]

LockFree_Always == TRUE

\* m.mu.Lock() / m.mu.RLock() are granted when no caller holds the exclusive
\* lock.  Read sections are single steps, so no reader is ever seen inside.
LockFree == mu = NoCaller

\* A return of the call: the caller holds the returned value until it resumes.
Return(t, op, name, err, val) ==
    /\ pc' = [pc EXCEPT ![t] = "returned"]
    /\ ret' = [ret EXCEPT ![t] = [NoRet EXCEPT !.op = op, !.name = name, !.err = err,
                                                !.val = val]]
    /\ call' = [call EXCEPT ![t] = NoCall]
    /\ cli' = [cli EXCEPT ![t] = 0]

\* The return of a Load that registered the plugin; pid tells which process
\* the new record names.
ReturnLoaded(t, name, pid) ==
    /\ pc' = [pc EXCEPT ![t] = "returned"]
    /\ ret' = [ret EXCEPT ![t] = [NoRet EXCEPT !.op = "Load", !.name = name, !.pid = pid]]
    /\ call' = [call EXCEPT ![t] = NoCall]
    /\ cli' = [cli EXCEPT ![t] = 0]

\* The caller goes on after a call returned.
Resume(t) ==
    /\ pc[t] = "returned"
    /\ pc' = [pc EXCEPT ![t] = "idle"]
    /\ ret' = [ret EXCEPT ![t] = NoRet]
    /\ UNCHANGED <<plugins, mu, procs, call, cli>>

(***************************************************************************)
(* Manager.Load                                                            *)
(***************************************************************************)
\* Spawns still allowed by MaxSpawns, counting the Loads about to spawn.
SpawnLimit == IF sched.built THEN MaxDaemonSpawns ELSE MaxSpawns

SpawnBudget ==
    SpawnLimit - Len(procs)
      - Cardinality({u \in Callers : pc[u] \in {"load_connect", "probe_connect"}})

AlreadyLoaded_Never(name) == FALSE

\* if _, exists := m.plugins[name]; exists
AlreadyLoaded(name) == name \in DOMAIN plugins

\* m.mu.Lock(); the "already loaded" check; findPluginPath.  An error return
\* releases the lock (defer m.mu.Unlock()) in the same step.
Load(t, name, config) ==
    /\ pc[t] = "idle"
    /\ SpawnBudget > 0
    /\ LockFree
    /\ IF AlreadyLoaded(name)
       THEN /\ Return(t, "Load", name, "already loaded", {})
            /\ UNCHANGED mu
       ELSE IF findPluginPath(name) = ""
       THEN /\ Return(t, "Load", name, "not found", {})
            /\ UNCHANGED mu
       ELSE /\ mu' = t
            /\ call' = [call EXCEPT ![t] =
                          [NoCall EXCEPT !.op = "Load", !.name = name, !.config = config]]
            /\ pc' = [pc EXCEPT ![t] = "load_connect"]
            /\ UNCHANGED <<cli, ret>>
    /\ UNCHANGED <<plugins, procs>>

LoadFail_NoKill(t, ps, pid, err) ==
    /\ procs' = ps
    /\ mu' = NoCaller
    /\ Return(t, "Load", call[t].name, err, {})

\* The error return of Load once the client exists:
\* client.Kill(); return fmt.Errorf(...), with the deferred Unlock.
LoadFail(t, ps, pid, err) ==
    /\ procs' = Kill(ps, pid)
    /\ mu' = NoCaller
    /\ Return(t, "Load", call[t].name, err, {})

\* rpcClient, err := client.Client(): starts the executable and performs the
\* handshake.
LoadConnect(t) ==
    /\ pc[t] = "load_connect"
    /\ Len(procs) < SpawnLimit
    /\ \E h \in PluginHandshakes :
         LET pid == Len(procs) + 1
             ps  == Append(procs, NewProc(call[t].name, h))
         IN IF HandshakeOK(h)
            THEN /\ procs' = ps
                 /\ cli' = [cli EXCEPT ![t] = pid]
                 /\ call' = [call EXCEPT ![t].spawns = @ + 1]
                 /\ pc' = [pc EXCEPT ![t] = "load_dispense"]
                 /\ UNCHANGED <<mu, ret>>
            ELSE LoadFail(t, ps, pid, "failed to connect")
    /\ UNCHANGED plugins

\* raw, err := rpcClient.Dispense(PluginName); p, ok := raw.(plugin.Plugin)
LoadDispense(t) ==
    /\ pc[t] = "load_dispense"
    /\ \E ok \in BOOLEAN :
         IF ok /\ procs[cli[t]].alive
         THEN /\ pc' = [pc EXCEPT ![t] = "load_manifest"]
              /\ UNCHANGED <<mu, procs, call, cli, ret>>
         ELSE LoadFail(t, procs, cli[t], "failed to dispense")
    /\ UNCHANGED plugins

\* manifest, err := p.GetManifest(ctx)
LoadManifest(t) ==
    /\ pc[t] = "load_manifest"
    /\ \E ok \in BOOLEAN :
         IF ok /\ procs[cli[t]].alive
         THEN /\ pc' = [pc EXCEPT ![t] = "load_mkdir"]
              /\ UNCHANGED <<mu, procs, call, cli, ret>>
         ELSE LoadFail(t, procs, cli[t], "failed to get manifest")
    /\ UNCHANGED plugins

\* os.MkdirAll(stateDir, 0755)
LoadMkdir(t) ==
    /\ pc[t] = "load_mkdir"
    /\ \E ok \in BOOLEAN :
         IF ok
         THEN /\ pc' = [pc EXCEPT ![t] = "load_configure"]
              /\ UNCHANGED <<mu, procs, call, cli, ret>>
         ELSE LoadFail(t, procs, cli[t], "failed to create state directory")
    /\ UNCHANGED plugins

\* grpcPluginClient.Configure: a transport error, or a response whose Success
\* is false, is an error.
ConfigureError(outcome) == outcome \in {"transport", "refused"}

\* The LoadedPlugin record Load registers.
LoadedPlugin(name, pid, config) ==
    [ Name |-> name, Path |-> findPluginPath(name), Manifest |-> ManifestOf(name),
      Client |-> pid, Config |-> config ]

\* p.Configure(ctx, hostClient, config, stateDir); on success
\* m.plugins[name] = &LoadedPlugin{...}; return nil
LoadConfigure(t) ==
    /\ pc[t] = "load_configure"
    /\ \E outcome \in {"ok", "transport", "refused"} :
         LET pid == cli[t]
             \* the request reaches a live plugin unless the transport failed
             ps  == IF procs[pid].alive /\ outcome # "transport"
                    THEN [procs EXCEPT ![pid].gotConfigure = TRUE]
                    ELSE procs
         IN /\ procs[pid].alive \/ outcome = "transport"
            /\ IF ConfigureError(outcome)
               THEN /\ LoadFail(t, ps, pid, "failed to configure")
                    /\ UNCHANGED plugins
               ELSE /\ procs' = ps
                    /\ plugins' = PutPlugin(call[t].name,
                                     LoadedPlugin(call[t].name, pid, call[t].config))
                    /\ mu' = NoCaller
                    /\ ReturnLoaded(t, call[t].name, pid)

(***************************************************************************)
(* Manager.Unload                                                          *)
(***************************************************************************)
\* The zero value a Go map lookup yields for a missing key.
NilPlugin == [Name |-> "", Path |-> "", Manifest |-> NilManifest,
              Client |-> 0, Config |-> ""]

Lookup_AlwaysExists(name) ==
    [exists |-> TRUE,
     loaded |-> IF name \in DOMAIN plugins THEN plugins[name] ELSE NilPlugin]

\* loaded, exists := m.plugins[name]
Lookup(name) ==
    IF name \in DOMAIN plugins
    THEN [exists |-> TRUE, loaded |-> plugins[name]]
    ELSE [exists |-> FALSE, loaded |-> NilPlugin]

\* m.mu.Lock() and the lookup.
Unload(t, name) ==
    /\ pc[t] = "idle"
    /\ LockFree
    /\ IF ~Lookup(name).exists
       THEN /\ Return(t, "Unload", name, "not loaded", {})
            /\ UNCHANGED mu
       ELSE /\ mu' = t
            /\ call' = [call EXCEPT ![t] = [NoCall EXCEPT !.op = "Unload", !.name = name]]
            /\ cli' = [cli EXCEPT ![t] = Lookup(name).loaded.Client]
            /\ pc' = [pc EXCEPT ![t] = "unload_shutdown"]
            /\ UNCHANGED ret
    /\ UNCHANGED <<plugins, procs>>

\* loaded.Plugin.Shutdown(ctx): the error is logged and otherwise ignored.
\* A dead process cannot answer, so the call fails.
UnloadShutdown(t) ==
    /\ pc[t] = "unload_shutdown"
    /\ \E ok \in BOOLEAN :
         call' = [call EXCEPT ![t].shutdownErr = ~(ok /\ procs[cli[t]].alive)]
    /\ pc' = [pc EXCEPT ![t] = "unload_kill"]
    /\ UNCHANGED <<plugins, mu, procs, cli, ret>>

UnloadResult_Propagate(shutdownErr) == IF shutdownErr THEN "shutdown failed" ELSE ""

\* What Unload returns once the plugin was found: nil, whatever Shutdown did.
UnloadResult(shutdownErr) == ""

\* m.logger.Warn("plugin shutdown returned error", ...)
UnloadLog(shutdownErr) ==
    IF shutdownErr THEN {"plugin shutdown returned error"} ELSE {}

\* loaded.Client.Kill(); delete(m.plugins, name); return nil
UnloadKill(t) ==
    /\ pc[t] = "unload_kill"
    /\ procs' = Kill(procs, cli[t])
    /\ plugins' = DeletePlugin(call[t].name)
    /\ mu' = NoCaller
    /\ Return(t, "Unload", call[t].name, UnloadResult(call[t].shutdownErr),
              UnloadLog(call[t].shutdownErr))

(***************************************************************************)
(* Manager.Execute                                                         *)
(***************************************************************************)
\* m.mu.RLock(); loaded, exists := m.plugins[name]; m.mu.RUnlock()
Execute(t, name) ==
    /\ pc[t] = "idle"
    /\ LockFree
    /\ IF ~Lookup(name).exists
       THEN Return(t, "Execute", name, "not loaded", {})
       ELSE /\ call' = [call EXCEPT ![t] = [NoCall EXCEPT !.op = "Execute", !.name = name]]
            /\ cli' = [cli EXCEPT ![t] = Lookup(name).loaded.Client]
            /\ pc' = [pc EXCEPT ![t] = "exec_call"]
            /\ UNCHANGED ret
    /\ UNCHANGED <<plugins, mu, procs>>

\* loaded.Plugin.Execute(ctx, params), outside the lock: the request is sent.
ExecCall(t) ==
    /\ pc[t] = "exec_call"
    /\ IF procs[cli[t]].alive
       THEN /\ procs' = [procs EXCEPT ![cli[t]].gotExecute = TRUE]
            /\ pc' = [pc EXCEPT ![t] = "exec_wait"]
            /\ UNCHANGED <<call, cli, ret>>
       ELSE /\ Return(t, "Execute", call[t].name, "plugin execution failed", {})
            /\ UNCHANGED procs
    /\ UNCHANGED <<plugins, mu>>

\* The answer of Plugin.Execute: a result, or an error (always an error when
\* the process is gone).
ExecReturn(t) ==
    /\ pc[t] = "exec_wait"
    /\ \E ok \in BOOLEAN :
         Return(t, "Execute", call[t].name,
                IF ok /\ procs[cli[t]].alive THEN "" ELSE "plugin execution failed", {})
    /\ UNCHANGED <<plugins, mu, procs>>

\* Whether the context Execute is called with carries a deadline.
\* executePlugin makes one with context.WithTimeout; TriggerPlugin, RunOnce
\* and RunPluginOnce pass the context of their caller on, which the daemon
\* command makes with context.WithCancel.  A direct caller of the Manager
\* brings a context of its own.
HasDeadline(t) == frame[t].op \notin {"TriggerPlugin", "RunOnce", "RunPluginOnce"}

\* The deadline of the context expires while the plugin has not answered:
\* the call returns the context's error.
ExecExpire(t) ==
    /\ pc[t] = "exec_wait"
    /\ HasDeadline(t)
    /\ Return(t, "Execute", call[t].name, "plugin execution failed", {})
    /\ UNCHANGED <<plugins, mu, procs>>

(***************************************************************************)
(* Manager.ListLoaded                                                      *)
(***************************************************************************)
\* The names of m.plugins, read under the read lock.
ListLoaded(t) ==
    /\ pc[t] = "idle"
    /\ LockFree
    /\ pc' = [pc EXCEPT ![t] = "returned"]
    /\ ret' = [ret EXCEPT ![t] = [NoRet EXCEPT !.op = "ListLoaded", !.val = DOMAIN plugins]]
    /\ UNCHANGED <<plugins, mu, procs, call, cli>>

(***************************************************************************)
(* Manager.GetLoaded                                                       *)
(***************************************************************************)
\* p, ok := m.plugins[name], read under the read lock; the error field of the
\* return carries ok.
GetLoaded(t, name) ==
    /\ pc[t] = "idle"
    /\ LockFree
    /\ Return(t, "GetLoaded", name,
              IF Lookup(name).exists THEN "" ELSE "not loaded", {})
    /\ UNCHANGED <<plugins, mu, procs>>

(***************************************************************************)
(* Manager.GetManifest                                                     *)
(***************************************************************************)
ReturnManifest(t, name, err, manifest) ==
    /\ pc' = [pc EXCEPT ![t] = "returned"]
    /\ ret' = [ret EXCEPT ![t] = [NoRet EXCEPT !.op = "GetManifest", !.name = name,
                                                !.err = err, !.manifest = manifest]]
    /\ call' = [call EXCEPT ![t] = NoCall]
    /\ cli' = [cli EXCEPT ![t] = 0]

\* The lookup under the read lock: the cached manifest of a loaded plugin is
\* returned at once; otherwise findPluginPath and goplugin.NewClient, with
\* the lock released.
GetManifest(t, name) ==
    /\ pc[t] = "idle"
    /\ SpawnBudget > 0
    /\ LockFree
    /\ IF Lookup(name).exists
       THEN ReturnManifest(t, name, "", Lookup(name).loaded.Manifest)
       ELSE IF findPluginPath(name) = ""
       THEN ReturnManifest(t, name, "not found", NilManifest)
       ELSE /\ call' = [call EXCEPT ![t] = [NoCall EXCEPT !.op = "GetManifest", !.name = name]]
            /\ pc' = [pc EXCEPT ![t] = "probe_connect"]
            /\ UNCHANGED <<cli, ret>>
    /\ UNCHANGED <<plugins, mu, procs>>

ProbeReturn_NoKill(t, ps, pid, err, manifest) ==
    /\ procs' = ps
    /\ ReturnManifest(t, call[t].name, err, manifest)

\* Every return of GetManifest once the client exists runs the deferred
\* client.Kill().
ProbeReturn(t, ps, pid, err, manifest) ==
    /\ procs' = Kill(ps, pid)
    /\ ReturnManifest(t, call[t].name, err, manifest)

\* rpcClient, err := client.Client()
ProbeConnect(t) ==
    /\ pc[t] = "probe_connect"
    /\ Len(procs) < SpawnLimit
    /\ \E h \in PluginHandshakes :
         LET pid == Len(procs) + 1
             ps  == Append(procs, NewProc(call[t].name, h))
         IN IF HandshakeOK(h)
            THEN /\ procs' = ps
                 /\ cli' = [cli EXCEPT ![t] = pid]
                 /\ pc' = [pc EXCEPT ![t] = "probe_dispense"]
                 /\ UNCHANGED <<call, ret>>
            ELSE ProbeReturn(t, ps, pid, "failed to connect", NilManifest)
    /\ UNCHANGED <<plugins, mu>>

\* raw, err := rpcClient.Dispense(PluginName); p, ok := raw.(plugin.Plugin)
ProbeDispense(t) ==
    /\ pc[t] = "probe_dispense"
    /\ \E ok \in BOOLEAN :
         IF ok /\ procs[cli[t]].alive
         THEN /\ pc' = [pc EXCEPT ![t] = "probe_manifest"]
              /\ UNCHANGED <<procs, call, cli, ret>>
         ELSE ProbeReturn(t, procs, cli[t], "failed to dispense", NilManifest)
    /\ UNCHANGED <<plugins, mu>>

\* return p.GetManifest(ctx)
ProbeManifest(t) ==
    /\ pc[t] = "probe_manifest"
    /\ \E ok \in BOOLEAN :
         IF ok /\ procs[cli[t]].alive
         THEN ProbeReturn(t, procs, cli[t], "", ManifestOf(call[t].name))
         ELSE ProbeReturn(t, procs, cli[t], "failed to get manifest", NilManifest)
    /\ UNCHANGED <<plugins, mu>>

(***************************************************************************)
(* Manager.Shutdown                                                        *)
(***************************************************************************)
\* m.mu.Lock(); the range over m.plugins starts.
Shutdown(t) ==
    /\ pc[t] = "idle"
    /\ LockFree
    /\ mu' = t
    /\ call' = [call EXCEPT ![t] = [NoCall EXCEPT !.op = "Shutdown", !.todo = DOMAIN plugins]]
    /\ pc' = [pc EXCEPT ![t] = "shutdown_each"]
    /\ UNCHANGED <<plugins, procs, cli, ret>>

ShutdownOne_SkipOnError(ps, pid, shutdownErr) ==
    IF shutdownErr THEN ps ELSE Kill(ps, pid)

\* The body of the loop: loaded.Plugin.Shutdown(ctx), whose error is only
\* logged, then loaded.Client.Kill().
ShutdownOne(ps, pid, shutdownErr) == Kill(ps, pid)

\* m.logger.Warn("plugin shutdown error", ...)
ShutdownLog(shutdownErr) ==
    IF shutdownErr THEN {"plugin shutdown error"} ELSE {}

\* One iteration of the range over m.plugins, in the map's arbitrary order.
ShutdownEach(t) ==
    /\ pc[t] = "shutdown_each"
    /\ \E name \in call[t].todo, ok \in BOOLEAN :
         LET pid == plugins[name].Client
             shutdownErr == ~(ok /\ procs[pid].alive)
         IN /\ procs' = ShutdownOne(procs, pid, shutdownErr)
            /\ call' = [call EXCEPT ![t].todo = @ \ {name},
                                    ![t].shutdownErr = @ \/ shutdownErr]
    /\ UNCHANGED <<plugins, mu, pc, cli, ret>>

\* m.plugins = make(map[string]*LoadedPlugin), and the deferred Unlock.
ShutdownClear(t) ==
    /\ pc[t] = "shutdown_each"
    /\ call[t].todo = {}
    /\ plugins' = << >>
    /\ mu' = NoCaller
    /\ Return(t, "Shutdown", "", "", ShutdownLog(call[t].shutdownErr))
    /\ UNCHANGED procs

(***************************************************************************)
(* The environment: a plugin process may die on its own.                   *)
(***************************************************************************)
Crash(pid) ==
    /\ procs[pid].alive
    /\ procs' = [procs EXCEPT ![pid].alive = FALSE]
    /\ UNCHANGED <<plugins, mu, pc, call, cli, ret>>

(***************************************************************************)
(* The Daemon (internal/daemon/daemon.go).                                 *)
(***************************************************************************)
\* PluginConfig: one entry of the daemon's plugin configuration.
PluginConfig(enabled, schedule, config) ==
    [Enabled |-> enabled, Schedule |-> schedule, Config |-> config]

\* pluginCfg = PluginConfig{Enabled: true}: what a plugin without an entry gets.
DefaultPluginConfig == PluginConfig(TRUE, << >>, "")

\* pluginCfg, exists := plugins[name]; if !exists { pluginCfg = default }
PluginConfigFor(cfgs, name) ==
    IF name \in DOMAIN cfgs THEN cfgs[name] ELSE DefaultPluginConfig

Hourly == <<"0", "0", "*", "*", "*", "*">>

\* What a daemon may be started with: available is what Manager.Discover
\* returns (the executables reorg-plugin-* of the plugin directory in
\* directory order, nothing when it cannot be read), cfgs the plugin
\* configurations of the config file.
Setup(available, cfgs) == [available |-> available, cfgs |-> cfgs]

Setups ==
    { Setup(<< >>, << >>),
      Setup(<<"notes", "obsidian">>, << >>),
      Setup(<<"notes", "obsidian">>, [n \in {"notes"} |-> PluginConfig(FALSE, << >>, "")]),
      Setup(<<"notes">>, [n \in {"notes"} |-> PluginConfig(TRUE, Hourly, "cfgA")]),
      Setup(<<"notes">>, [n \in {"notes"} |-> PluginConfig(TRUE, <<"@hourly">>, "cfgA")]),
      Setup(<<"notes">>, [n \in {"notes"} |-> PluginConfig(TRUE, <<"hourly">>, "cfgA")]),
      Setup(<<"example", "manual">>, << >>),
      Setup(<<"example", "manual">>, [n \in {"manual"} |-> PluginConfig(TRUE, Hourly, "cfgB")]) }

\* The predefined schedules of the cron parser.
Descriptors == {"@yearly", "@annually", "@monthly", "@weekly", "@daily", "@midnight", "@hourly"}

\* cron.New(cron.WithSeconds()): an expression is a descriptor or has exactly
\* six fields (second minute hour day-of-month month day-of-week).
ValidSchedule(schedule) ==
    \/ Len(schedule) = 6
    \/ Len(schedule) = 1 /\ schedule[1] \in Descriptors

\* schedule := cfg.Schedule; if schedule == "" { schedule = manifest.Schedule }
EffectiveSchedule(cfg, manifest) ==
    IF cfg.Schedule # << >> THEN cfg.Schedule ELSE manifest.Schedule

\* A caller that is in no Daemon method.  A frame holds the locals of the
\* method in progress and, for the properties, what the method has done:
\* the processes it loaded, its Execute and Unload calls, its error.
NoFrame ==
    [ op |-> "none", stage |-> "none", todo |-> << >>, cfgs |-> << >>, name |-> "",
      cfg |-> DefaultPluginConfig, schedule |-> << >>,
      loaded |-> {}, execs |-> 0, execErrs |-> 0, unloads |-> 0, err |-> "",
      afterFailure |-> FALSE ]

\* The caller is in no Daemon method: none was called, or the last returned.
FrameIdle(t) == frame[t].stage \in {"none", "returned"}

\* Scheduled fires in one behaviour.
MaxTicks == 2

\* Calls of Daemon methods in one behaviour.
MaxCalls == 2

\* Calls of Daemon methods and of Start in one behaviour of a Daemon that is
\* started again.
MaxRestartCalls == 3
MaxStarts == 2

\* No Daemon has been built: the Manager is used directly.
DmnOff ==
    /\ sched = [built |-> FALSE, started |-> FALSE, running |-> FALSE, entries |-> << >>]
    /\ jobs = << >>
    /\ frame = [t \in Callers |-> NoFrame]
    /\ ticks = [fires |-> 0, calls |-> 0, starts |-> 0]

\* NewDaemon: a Manager, a cron engine that is not running, no jobs.
DmnInit ==
    /\ sched = [built |-> TRUE, started |-> FALSE, running |-> FALSE, entries |-> << >>]
    /\ jobs = << >>
    /\ frame = [t \in Callers |-> NoFrame]
    /\ ticks = [fires |-> MaxTicks, calls |-> MaxCalls, starts |-> 1]

\* NewDaemon, for a Daemon that is started, stopped and started again.
DmnRestartInit ==
    /\ sched = [built |-> TRUE, started |-> FALSE, running |-> FALSE, entries |-> << >>]
    /\ jobs = << >>
    /\ frame = [t \in Callers |-> NoFrame]
    /\ ticks = [fires |-> MaxTicks, calls |-> MaxRestartCalls, starts |-> MaxStarts]

\* A caller may enter a Daemon method.
CanCall(t) == sched.built /\ FrameIdle(t) /\ pc[t] = "idle"

\* A Daemon method is called.
Called ==
    /\ ticks.calls > 0
    /\ ticks' = [ticks EXCEPT !.calls = @ - 1]

\* continue: the loop of Start or RunOnce goes to the next plugin.
Continue(t) == [frame EXCEPT ![t].todo = Tail(@), ![t].stage = "loop"]

(***************************************************************************)
(* Daemon.Start and Daemon.schedulePlugin                                  *)
(***************************************************************************)
\* available, err := d.manager.Discover(): an error is logged and leaves
\* nothing to schedule.
Start(t, available, cfgs) ==
    /\ CanCall(t)
    /\ ticks.calls > 0 /\ ticks.starts > 0
    /\ ticks' = [ticks EXCEPT !.calls = @ - 1, !.starts = @ - 1]
    /\ sched' = [sched EXCEPT !.started = TRUE]
    /\ frame' = [frame EXCEPT ![t] =
                   [NoFrame EXCEPT !.op = "Start", !.stage = "loop",
                                   !.todo = available, !.cfgs = cfgs]]
    /\ UNCHANGED <<jobs, mgrVars>>

\* One turn of the loop over the discovered plugins: a disabled plugin is
\* skipped; for the others schedulePlugin begins with Manager.GetManifest.
\* After the loop d.scheduler.Start() and return.
StartLoop(t) ==
    /\ frame[t].op = "Start" /\ frame[t].stage = "loop"
    /\ IF frame[t].todo = << >>
       THEN /\ sched' = [sched EXCEPT !.running = TRUE]
            /\ frame' = [frame EXCEPT ![t].stage = "returned",
                              ![t].cfg = DefaultPluginConfig, ![t].schedule = << >>]
            /\ UNCHANGED <<jobs, ticks, mgrVars>>
       ELSE LET name == Head(frame[t].todo)
                cfg  == PluginConfigFor(frame[t].cfgs, name)
            IN IF ~cfg.Enabled
               THEN /\ frame' = Continue(t)
                    /\ UNCHANGED <<sched, jobs, ticks, mgrVars>>
               ELSE /\ GetManifest(t, name)
                    /\ frame' = [frame EXCEPT ![t].name = name, ![t].cfg = cfg,
                                              ![t].stage = "sp_manifest"]
                    /\ UNCHANGED <<sched, jobs, ticks>>

\* schedulePlugin after GetManifest: an error ends it; so does an empty
\* effective schedule, without loading.
SchedManifest(t) ==
    /\ frame[t].stage = "sp_manifest"
    /\ Resume(t)
    /\ LET schedule == EffectiveSchedule(frame[t].cfg, ret[t].manifest)
       IN frame' = IF ret[t].err # "" \/ schedule = << >>
                   THEN Continue(t)
                   ELSE [frame EXCEPT ![t].schedule = schedule, ![t].stage = "sp_load"]
    /\ UNCHANGED <<sched, jobs, ticks>>

\* d.manager.Load(ctx, name, cfg.Config)
SchedLoad(t) ==
    /\ frame[t].stage = "sp_load"
    /\ Load(t, frame[t].name, frame[t].cfg.Config)
    /\ frame' = [frame EXCEPT ![t].stage = "sp_loaded"]
    /\ UNCHANGED <<sched, jobs, ticks>>

\* d.jobs[name] = entryID
PutJob(js, name, id) ==
    [n \in (DOMAIN js) \cup {name} |-> IF n = name THEN id ELSE js[n]]

\* schedulePlugin after Load: a load error ends it; otherwise
\* d.scheduler.AddFunc(schedule, ...), whose error ends it too, and
\* d.jobs[name] = entryID.
SchedAddFunc(t) ==
    /\ frame[t].stage = "sp_loaded"
    /\ Resume(t)
    /\ IF ret[t].err # ""
       THEN /\ frame' = Continue(t)
            /\ UNCHANGED <<sched, jobs>>
       ELSE LET fr == [Continue(t) EXCEPT ![t].loaded = @ \cup {ret[t].pid}]
            IN IF ValidSchedule(frame[t].schedule)
               THEN /\ sched' = [sched EXCEPT !.entries =
                                    Append(@, [name |-> frame[t].name,
                                               schedule |-> frame[t].schedule])]
                    /\ jobs' = PutJob(jobs, frame[t].name, Len(sched.entries) + 1)
                    /\ frame' = fr
               ELSE /\ frame' = [fr EXCEPT ![t].err = "failed to schedule"]
                    /\ UNCHANGED <<sched, jobs>>
    /\ UNCHANGED ticks

(***************************************************************************)
(* Daemon.executePlugin: a scheduled fire                                  *)
(***************************************************************************)
AfterFire_Disable(js, name, err) ==
    IF err = "" THEN js ELSE [n \in (DOMAIN js) \ {name} |-> js[n]]

\* What a fire that has ended leaves of d.jobs: an error is logged, the job
\* stays.
AfterFire(js, name, err) == js

\* The cron engine, while it runs, fires an entry: executePlugin(name)
\* calls Manager.Execute with DryRun false.
Fire(t, e) ==
    /\ CanCall(t)
    /\ sched.running
    /\ ticks.fires > 0
    /\ ticks' = [ticks EXCEPT !.fires = @ - 1]
    /\ LET name == sched.entries[e].name
       IN /\ Execute(t, name)
          /\ frame' = [frame EXCEPT ![t] =
                [NoFrame EXCEPT !.op = "fire", !.stage = "fire_wait", !.name = name,
                                !.execs = 1,
                                !.afterFailure = /\ frame[t].op = "fire"
                                                 /\ frame[t].name = name
                                                 /\ frame[t].err # ""]]
    /\ UNCHANGED <<sched, jobs>>

\* Execute has returned: the error or the summary is logged.
FireDone(t) ==
    /\ frame[t].stage = "fire_wait"
    /\ Resume(t)
    /\ frame' = [frame EXCEPT ![t].stage = "returned",
                              ![t].cfg = DefaultPluginConfig, ![t].schedule = << >>, ![t].err = ret[t].err,
                              ![t].execErrs = IF ret[t].err = "" THEN 0 ELSE 1]
    /\ jobs' = AfterFire(jobs, frame[t].name, ret[t].err)
    /\ UNCHANGED <<sched, ticks>>

(***************************************************************************)
(* Daemon.Stop                                                             *)
(***************************************************************************)
\* d.scheduler.Stop(): no entry fires from now on; fires in progress go on.
Stop(t) ==
    /\ CanCall(t)
    /\ Called
    /\ sched' = [sched EXCEPT !.running = FALSE]
    /\ frame' = [frame EXCEPT ![t] = [NoFrame EXCEPT !.op = "Stop", !.stage = "stop_shutdown"]]
    /\ UNCHANGED <<jobs, mgrVars>>

\* d.manager.Shutdown(ctx); the frame remembers the processes of the loaded
\* set at the moment Shutdown takes the lock.
StopShutdown(t) ==
    /\ frame[t].stage = "stop_shutdown"
    /\ Shutdown(t)
    /\ frame' = [frame EXCEPT ![t].stage = "stop_wait",
                              ![t].loaded = {plugins[n].Client : n \in DOMAIN plugins}]
    /\ UNCHANGED <<sched, jobs, ticks>>

\* d.jobs = make(map[string]cron.EntryID); the frame keeps what Shutdown
\* logged.
StopClear(t) ==
    /\ frame[t].stage = "stop_wait"
    /\ Resume(t)
    /\ jobs' = << >>
    /\ frame' = [frame EXCEPT ![t].err = IF ret[t].val = {} THEN "" ELSE "plugin shutdown error",
                              ![t].stage = "returned",
                              ![t].cfg = DefaultPluginConfig, ![t].schedule = << >>]
    /\ UNCHANGED <<sched, ticks>>

(***************************************************************************)
(* Daemon.TriggerPlugin                                                    *)
(***************************************************************************)
\* d.manager.GetLoaded(name)
TriggerPlugin(t, name, dryRun) ==
    /\ CanCall(t)
    /\ Called
    /\ GetLoaded(t, name)
    /\ frame' = [frame EXCEPT ![t] =
                   [NoFrame EXCEPT !.op = "TriggerPlugin", !.stage = "tp_check",
                                   !.name = name]]
    /\ UNCHANGED <<sched, jobs>>

\* if _, exists := ...; !exists { Load } : the answer of GetLoaded decides.
TriggerChecked(t) ==
    /\ frame[t].stage = "tp_check"
    /\ Resume(t)
    /\ frame' = [frame EXCEPT ![t].stage = IF ret[t].err = "" THEN "tp_exec" ELSE "tp_load"]
    /\ UNCHANGED <<sched, jobs, ticks>>

\* d.manager.Load(ctx, name, nil)
TriggerLoad(t) ==
    /\ frame[t].stage = "tp_load"
    /\ Load(t, frame[t].name, "")
    /\ frame' = [frame EXCEPT ![t].stage = "tp_loaded"]
    /\ UNCHANGED <<sched, jobs, ticks>>

\* A load error is returned ("failed to load plugin: ..."); otherwise on to
\* Execute.
TriggerLoaded(t) ==
    /\ frame[t].stage = "tp_loaded"
    /\ Resume(t)
    /\ frame' = IF ret[t].err # ""
                THEN [frame EXCEPT ![t].stage = "returned",
                              ![t].cfg = DefaultPluginConfig, ![t].schedule = << >>, ![t].err = ret[t].err]
                ELSE [frame EXCEPT ![t].stage = "tp_exec",
                                   ![t].loaded = @ \cup {ret[t].pid}]
    /\ UNCHANGED <<sched, jobs, ticks>>

\* return d.manager.Execute(ctx, name, &plugin.ExecuteParams{DryRun: dryRun})
TriggerExec(t) ==
    /\ frame[t].stage = "tp_exec"
    /\ Execute(t, frame[t].name)
    /\ frame' = [frame EXCEPT ![t].stage = "tp_wait", ![t].execs = @ + 1]
    /\ UNCHANGED <<sched, jobs, ticks>>

TriggerDone(t) ==
    /\ frame[t].stage = "tp_wait"
    /\ Resume(t)
    /\ frame' = [frame EXCEPT ![t].stage = "returned",
                              ![t].cfg = DefaultPluginConfig, ![t].schedule = << >>, ![t].err = ret[t].err,
                              ![t].execErrs = IF ret[t].err = "" THEN 0 ELSE 1]
    /\ UNCHANGED <<sched, jobs, ticks>>

(***************************************************************************)
(* Daemon.RunOnce                                                          *)
(***************************************************************************)
RunOnce(t, available, cfgs) ==
    /\ CanCall(t)
    /\ ~sched.started
    /\ Called
    /\ frame' = [frame EXCEPT ![t] =
                   [NoFrame EXCEPT !.op = "RunOnce", !.stage = "loop",
                                   !.todo = available, !.cfgs = cfgs]]
    /\ UNCHANGED <<sched, jobs, mgrVars>>

\* One turn of the loop: a disabled plugin is skipped, the others are
\* loaded; after the loop RunOnce returns nil.
RunOnceLoop(t) ==
    /\ frame[t].op = "RunOnce" /\ frame[t].stage = "loop"
    /\ IF frame[t].todo = << >>
       THEN /\ frame' = [frame EXCEPT ![t].stage = "returned",
                              ![t].cfg = DefaultPluginConfig, ![t].schedule = << >>]
            /\ UNCHANGED mgrVars
       ELSE LET name == Head(frame[t].todo)
                cfg  == PluginConfigFor(frame[t].cfgs, name)
            IN IF ~cfg.Enabled
               THEN /\ frame' = Continue(t)
                    /\ UNCHANGED mgrVars
               ELSE /\ Load(t, name, cfg.Config)
                    /\ frame' = [frame EXCEPT ![t].name = name, ![t].cfg = cfg,
                                              ![t].stage = "ro_loaded"]
    /\ UNCHANGED <<sched, jobs, ticks>>

\* A load error is logged and the loop continues.
RunOnceLoaded(t) ==
    /\ frame[t].stage = "ro_loaded"
    /\ Resume(t)
    /\ frame' = IF ret[t].err # ""
                THEN Continue(t)
                ELSE [frame EXCEPT ![t].stage = "ro_exec",
                                   ![t].loaded = @ \cup {ret[t].pid}]
    /\ UNCHANGED <<sched, jobs, ticks>>

RunOnceExec(t) ==
    /\ frame[t].stage = "ro_exec"
    /\ Execute(t, frame[t].name)
    /\ frame' = [frame EXCEPT ![t].stage = "ro_wait", ![t].execs = @ + 1]
    /\ UNCHANGED <<sched, jobs, ticks>>

\* Whether the loop body reaches d.manager.Unload after Execute: an Execute
\* error is logged and followed by continue.
RunOnceUnloads(err) == err = ""

RunOnceExecuted(t) ==
    /\ frame[t].stage = "ro_wait"
    /\ Resume(t)
    /\ frame' = IF RunOnceUnloads(ret[t].err)
                THEN [frame EXCEPT ![t].stage = "ro_unload",
                                   ![t].execErrs = @ + (IF ret[t].err = "" THEN 0 ELSE 1)]
                ELSE [Continue(t) EXCEPT ![t].execErrs = @ + 1]
    /\ UNCHANGED <<sched, jobs, ticks>>

\* d.manager.Unload(ctx, name)
RunOnceUnload(t) ==
    /\ frame[t].stage = "ro_unload"
    /\ Unload(t, frame[t].name)
    /\ frame' = [frame EXCEPT ![t].stage = "ro_unloaded", ![t].unloads = @ + 1]
    /\ UNCHANGED <<sched, jobs, ticks>>

\* An Unload error is only logged.
RunOnceUnloaded(t) ==
    /\ frame[t].stage = "ro_unloaded"
    /\ Resume(t)
    /\ frame' = Continue(t)
    /\ UNCHANGED <<sched, jobs, ticks>>

(***************************************************************************)
(* Daemon.RunPluginOnce                                                    *)
(***************************************************************************)
\* d.manager.Load(ctx, name, cfg.Config)
RunPluginOnce(t, name, cfg, dryRun) ==
    /\ CanCall(t)
    /\ Called
    /\ Load(t, name, cfg.Config)
    /\ frame' = [frame EXCEPT ![t] =
                   [NoFrame EXCEPT !.op = "RunPluginOnce", !.stage = "rpo_loaded",
                                   !.name = name, !.cfg = cfg]]
    /\ UNCHANGED <<sched, jobs>>

\* A load error is returned before the unload is deferred.
RunPluginLoaded(t) ==
    /\ frame[t].stage = "rpo_loaded"
    /\ Resume(t)
    /\ frame' = IF ret[t].err # ""
                THEN [frame EXCEPT ![t].stage = "returned",
                              ![t].cfg = DefaultPluginConfig, ![t].schedule = << >>, ![t].err = ret[t].err]
                ELSE [frame EXCEPT ![t].stage = "rpo_exec",
                                   ![t].loaded = @ \cup {ret[t].pid}]
    /\ UNCHANGED <<sched, jobs, ticks>>

RunPluginExec(t) ==
    /\ frame[t].stage = "rpo_exec"
    /\ Execute(t, frame[t].name)
    /\ frame' = [frame EXCEPT ![t].stage = "rpo_wait", ![t].execs = @ + 1]
    /\ UNCHANGED <<sched, jobs, ticks>>

RunPluginUnloads_OnSuccess(err) == err = ""

\* Whether the unload runs after Execute: it is deferred, so always.
RunPluginUnloads(err) == TRUE

RunPluginExecuted(t) ==
    /\ frame[t].stage = "rpo_wait"
    /\ Resume(t)
    /\ frame' = [frame EXCEPT
                   ![t].stage = IF RunPluginUnloads(ret[t].err) THEN "rpo_unload" ELSE "returned",
                   ![t].err = ret[t].err,
                   ![t].execErrs = IF ret[t].err = "" THEN 0 ELSE 1]
    /\ UNCHANGED <<sched, jobs, ticks>>

\* The deferred d.manager.Unload(ctx, name)
RunPluginUnload(t) ==
    /\ frame[t].stage = "rpo_unload"
    /\ Unload(t, frame[t].name)
    /\ frame' = [frame EXCEPT ![t].stage = "rpo_unloaded", ![t].unloads = @ + 1]
    /\ UNCHANGED <<sched, jobs, ticks>>

\* An Unload error is only logged; the result of Execute is returned.
RunPluginUnloaded(t) ==
    /\ frame[t].stage = "rpo_unloaded"
    /\ Resume(t)
    /\ frame' = [frame EXCEPT ![t].stage = "returned",
                              ![t].cfg = DefaultPluginConfig, ![t].schedule = << >>]
    /\ UNCHANGED <<sched, jobs, ticks>>

(***************************************************************************)
(* Strings.  A string is a sequence of one-character strings, so that the  *)
(* case folding and the slugs of the code are computed, not assumed.       *)
(***************************************************************************)
UpperCase == <<"A", "B", "P", "W">>
LowerCase == <<"a", "b", "p", "w">>

\* The lower-case letters, digits and hyphen that occur in the model's names.
SlugRunes == {"a", "b", "e", "k", "l", "n", "o", "p", "r", "s", "t", "w", "1", "-"}

\* r + ('a' - 'A') for r in 'A'..'Z', r otherwise.
toLowerRune(r) ==
    IF \E i \in DOMAIN UpperCase : UpperCase[i] = r
    THEN LowerCase[CHOOSE i \in DOMAIN UpperCase : UpperCase[i] = r]
    ELSE r

stringsToLower(s) == [i \in 1..Len(s) |-> toLowerRune(s[i])]

stringsEqualFold(a, b) == stringsToLower(a) = stringsToLower(b)

\* strings.ReplaceAll(s, " ", "-")
stringsReplace(s) == [i \in 1..Len(s) |-> IF s[i] = " " THEN "-" ELSE s[i]]

RECURSIVE keepSlugRunes(_)
keepSlugRunes(s) ==
    IF s = << >> THEN << >>
    ELSE IF Head(s) \in SlugRunes
         THEN <<Head(s)>> \o keepSlugRunes(Tail(s))
         ELSE keepSlugRunes(Tail(s))

\* slugify: lower-case, spaces to hyphens, then only [a-z0-9-] kept.
slugify(s) == keepSlugRunes(stringsReplace(stringsToLower(s)))

Personal == <<"p", "e", "r", "s", "o", "n", "a", "l">>
Work == <<"W", "o", "r", "k">>

(***************************************************************************)
(* The source of an import: a vault of notes.                              *)
(***************************************************************************)
\* Notes in the vault.
MaxNotes == 2

\* Execute calls in one behaviour.
MaxRuns == 2

\* Failures of the environment in one behaviour: an Execute precondition not
\* met, a state file that cannot be read or written, a store that cannot be
\* read or written, an LLM call that returns an error.
MaxFaults == 2

\* Display name of the note with a given identifier.  The first two names
\* differ but have one slug; the last has a character slugify drops.
NoteName(id) ==
    CASE id = 1 -> <<"A", " ", "b">>
      [] id = 2 -> <<"a", "-", "b">>
      [] OTHER  -> <<"B", "!">>

\* Note bodies, as byte sequences.
Contents == {<<1, 2>>, <<2, 1>>}

RECURSIVE digest(_, _)
digest(h, bytes) ==
    IF bytes = << >> THEN h
    ELSE digest((h * 31 + Head(bytes)) % 65536, Tail(bytes))

\* hashContent: a fixed-size digest of the content, in hexadecimal.  SHA-256
\* truncated to 8 bytes in the code; a 16-bit polynomial digest here, which
\* like the original separates all the contents of the model.
hashContent(content) == <<"h", digest(7, content)>>

(***************************************************************************)
(* The host's store of areas, projects and tasks (storage/markdown) and    *)
(* the callbacks a plugin reaches it through.                              *)
(***************************************************************************)
\* Byte order of the runes of a slug; os.ReadDir lists directories by name.
RuneOrder == <<"-", "1", "a", "b", "e", "k", "l", "n", "o", "p", "r", "s", "t", "w">>
RuneRank(r) == CHOOSE i \in DOMAIN RuneOrder : RuneOrder[i] = r

RECURSIVE SlugLess(_, _)
SlugLess(a, b) ==
    IF b = << >> THEN FALSE
    ELSE IF a = << >> THEN TRUE
    ELSE IF Head(a) = Head(b) THEN SlugLess(Tail(a), Tail(b))
    ELSE RuneRank(Head(a)) < RuneRank(Head(b))

\* The list with one more entry, kept in the order of the slugs of the titles.
RECURSIVE InsertBySlug(_, _)
InsertBySlug(list, e) ==
    IF list = << >> THEN <<e>>
    ELSE IF SlugLess(slugify(e.Title), slugify(Head(list).Title))
         THEN <<e>> \o list
         ELSE <<Head(list)>> \o InsertBySlug(Tail(list), e)

NoArea == [ID |-> 0, Title |-> << >>]
NoProject == [ID |-> 0, Title |-> << >>, AreaID |-> 0]

\* The result of a callback on the store: the error (""  for none), the
\* entity returned, the store afterwards and whether an entity was created.
AreaResult(err, area, as, created) ==
    [err |-> err, area |-> area, areas |-> as, created |-> created]
ProjectResult(err, project, ps, created) ==
    [err |-> err, project |-> project, projects |-> ps, created |-> created]

\* AreaRepo.Create after HostClient.CreateArea: a new identifier, the title
\* as given; refused when the title is empty or the slug's directory exists.
CreateArea(as, title) ==
    IF title = << >> THEN AreaResult("area title is required", NoArea, as, FALSE)
    ELSE IF \/ slugify(title) = << >>
            \/ \E i \in DOMAIN as : slugify(as[i].Title) = slugify(title)
    THEN AreaResult("already exists", NoArea, as, FALSE)
    ELSE LET a == [ID |-> Len(as) + 1, Title |-> title]
         IN AreaResult("", a, InsertBySlug(as, a), TRUE)

\* The entries of a list that match a name by slug or by title, in order.
Matches(list, name) ==
    SelectSeq(list, LAMBDA e : \/ stringsEqualFold(slugify(e.Title), slugify(name))
                               \/ stringsEqualFold(e.Title, name))

\* grpcHostClient.FindOrCreateArea: list, return the first match, else create
\* with the name as title.  ok is whether the host's reads and writes work.
FindOrCreateArea(as, name, ok) ==
    IF ~ok THEN AreaResult("io error", NoArea, as, FALSE)
    ELSE IF Matches(as, name) # << >>
    THEN AreaResult("", Head(Matches(as, name)), as, FALSE)
    ELSE CreateArea(as, name)

\* ProjectRepo.List(areaID)
ListProjects(ps, areaID) == SelectSeq(ps, LAMBDA p : p.AreaID = areaID)

\* ProjectRepo.Create after HostClient.CreateProject.
CreateProject(as, ps, title, areaID) ==
    IF title = << >> THEN ProjectResult("project title is required", NoProject, ps, FALSE)
    ELSE IF areaID = 0 THEN ProjectResult("project area_id is required", NoProject, ps, FALSE)
    ELSE IF ~\E i \in DOMAIN as : as[i].ID = areaID
    THEN ProjectResult("area not found", NoProject, ps, FALSE)
    ELSE IF \/ slugify(title) = << >>
            \/ \E i \in DOMAIN ps : /\ ps[i].AreaID = areaID
                                    /\ slugify(ps[i].Title) = slugify(title)
    THEN ProjectResult("already exists", NoProject, ps, FALSE)
    ELSE LET p == [ID |-> Len(ps) + 1, Title |-> title, AreaID |-> areaID]
         IN ProjectResult("", p, InsertBySlug(ps, p), TRUE)

\* grpcHostClient.FindOrCreateProject
FindOrCreateProject(as, ps, name, areaID, ok) ==
    IF ~ok THEN ProjectResult("io error", NoProject, ps, FALSE)
    ELSE IF Matches(ListProjects(ps, areaID), name) # << >>
    THEN ProjectResult("", Head(Matches(ListProjects(ps, areaID), name)), ps, FALSE)
    ELSE CreateProject(as, ps, name, areaID)

\* ProjectRepo.Get by identifier.
GetProject(ps, id) ==
    IF \E i \in DOMAIN ps : ps[i].ID = id
    THEN ProjectResult("", ps[CHOOSE i \in DOMAIN ps : ps[i].ID = id], ps, FALSE)
    ELSE ProjectResult("project not found", NoProject, ps, FALSE)

\* TaskRepo.Create after HostClient.CreateTask: the task file is written
\* unless one of that slug is there; the plugin ignores the error.
CreateTask(ts, title, projectID, areaID) ==
    ts \cup {[Slug |-> slugify(title), ProjectID |-> projectID, AreaID |-> areaID]}

(***************************************************************************)
(* The AI collaborator.                                                    *)
(***************************************************************************)
\* A categorization; the confidence is in tenths.
CategorizeResult(area, conf, projectID, suggestion, actionable) ==
    [Area |-> area, AreaConfidence |-> conf, ProjectID |-> projectID,
     ProjectSuggestion |-> suggestion, IsActionable |-> actionable]

\* What the language model may answer for a note: a new actionable item for
\* the Work area, or a match with the first project it was shown.
LLMAnswers(ps) ==
    {CategorizeResult(Work, 9, 0, << >>, TRUE)}
    \cup {CategorizeResult(Personal, 8, ps[i].ID, << >>, FALSE) : i \in DOMAIN ps \cap {1}}

Nil == [nil |-> TRUE]

\* What a call of the LLM client's CategorizeWithContext may return.
LLMOutcomes(ps) ==
    {[result |-> a, err |-> ""] : a \in LLMAnswers(ps)}
    \cup {[result |-> Nil, err |-> "llm error"]}

Fallback_Actionable(note) == CategorizeResult(Personal, 5, 0, note.Name, TRUE)

\* importNote's categorization when CategorizeWithContext returned an error.
Fallback(note) == CategorizeResult(Personal, 5, 0, note.Name, FALSE)

\* Tasks ExtractTasks may return.
TaskTitle == <<"t", "1">>
ExtractOutcomes ==
    {[tasks |-> << >>, err |-> ""],
     [tasks |-> <<TaskTitle>>, err |-> ""],
     [tasks |-> << >>, err |-> "llm error"]}

(***************************************************************************)
(* The importer plugin's persisted state and its Execute.                  *)
(***************************************************************************)
VARIABLES
    vault,      \* the candidate notes readNotes returns, in walk order
    llm,        \* whether the host was given an LLM client
    hostAlive,  \* FALSE once a callback handler of the host has panicked
    stateFile,  \* the plugin's state file: << >> if absent, else <<bytes>>
    areas,      \* the store's areas, in listing order
    projects,   \* the store's projects, in listing order
    tasks,      \* the store's tasks
    run,        \* the Execute in progress in the plugin process
    prev,       \* what the last Execute that returned reported
    nruns,      \* Execute calls so far; also the host's clock
    faults      \* failures of the environment so far

impVars == <<vault, llm, hostAlive, stateFile, areas, projects, tasks, run, prev, nruns, faults>>

\* A step in which the environment fails or not, within the bound.
Fault(failed) ==
    /\ failed => faults < MaxFaults
    /\ faults' = faults + (IF failed THEN 1 ELSE 0)

vars == <<mgrVars, impVars, dmnVars, kvVars, focVars>>

\* State{}: no last run, nothing processed.
EmptyState == [LastRun |-> 0, ProcessedNotes |-> << >>]

RECURSIVE SortedPairs(_, _)
SortedPairs(m, keys) ==
    IF keys = {} THEN << >>
    ELSE LET k == CHOOSE x \in keys : \A y \in keys : x <= y
         IN <<[key |-> k, value |-> m[k]]>> \o SortedPairs(m, keys \ {k})

\* json.Marshal of a State: the map as key/value members in key order.
Marshal(state) ==
    [last_run |-> state.LastRun,
     processed_notes |-> SortedPairs(state.ProcessedNotes, DOMAIN state.ProcessedNotes)]

Unmarshal_Empty(data) == [LastRun |-> data.last_run, ProcessedNotes |-> << >>]

\* json.Unmarshal into a State.
Unmarshal(data) ==
    [LastRun |-> data.last_run,
     ProcessedNotes |->
        [k \in {data.processed_notes[j].key : j \in DOMAIN data.processed_notes} |->
            data.processed_notes[CHOOSE j \in DOMAIN data.processed_notes :
                                    data.processed_notes[j].key = k].value]]

\* StateJSON.Get over HostClient.GetState: the state is filled only when the
\* read works and the file is there.
StateGet(file, ok) ==
    IF ok /\ file # << >> THEN Unmarshal(file[1]) ELSE EmptyState

\* StateJSON.Set over HostClient.SetState: the file after a write.
StateSet(file, state, ok) ==
    IF ok THEN <<Marshal(state)>> ELSE file

NoSummary == [ItemsProcessed |-> 0, ItemsImported |-> 0, ItemsSkipped |-> 0, ItemsFailed |-> 0]

\* result := &ExecuteResult{Success: true, Summary: &ExecuteSummary{}}
NewResult == [Success |-> TRUE, Error |-> "", Summary |-> NoSummary, Results |-> << >>]

NoCat == CategorizeResult(<< >>, 0, 0, << >>, FALSE)

\* What is recorded of the handling of one note: how the categorization
\* ended, the categorization used, where the import failed, and how
\* ExtractTasks ended.
NoStep == [ID |-> 0, cat |-> "none", used |-> NoCat, failedAt |-> "", extract |-> "not called"]

IdleRun ==
    [pc |-> "idle", dryRun |-> FALSE, notes |-> << >>, i |-> 0, state |-> EmptyState,
     loaded |-> FALSE, saved |-> FALSE, area |-> NoArea, project |-> NoProject,
     result |-> NewResult, cur |-> NoStep, trace |-> << >>, calls |-> {},
     fileAtStart |-> << >>, storeAtStart |-> << >>]

NoPrev ==
    [exists |-> FALSE, dryRun |-> FALSE, loaded |-> FALSE, saved |-> FALSE,
     success |-> FALSE, results |-> << >>, changed |-> FALSE, reloaded |-> FALSE]

Note(id, content) == [ID |-> id, Name |-> NoteName(id), Content |-> content]

\* The map a run that imported the notes of ids would have stored.
StoredFor(v, ids) ==
    [LastRun |-> 0,
     ProcessedNotes |-> [k \in ids |-> hashContent(v[CHOOSE j \in DOMAIN v : v[j].ID = k].Content)]]

\* The projects an earlier run has filed the notes of ids under, each under
\* the note's name in the area of identifier 1.
RECURSIVE FiledProjects(_, _, _)
FiledProjects(as, ps, ids) ==
    IF ids = {} THEN ps
    ELSE LET k == CHOOSE x \in ids : \A y \in ids : x <= y
         IN FiledProjects(as, FindOrCreateProject(as, ps, NoteName(k), 1, TRUE).projects,
                          ids \ {k})

ImpIdle ==
    /\ vault = << >>
    /\ llm = FALSE
    /\ hostAlive = TRUE
    /\ stateFile = << >>
    /\ areas = << >>
    /\ projects = << >>
    /\ tasks = {}
    /\ run = IdleRun
    /\ prev = NoPrev
    /\ nruns = 0
    /\ faults = 0

\* A vault of one to MaxNotes notes, a host with or without an LLM client,
\* and either an empty store and no state file, or the store and the state
\* file an earlier run that imported some of the notes has left.
ImpInit ==
    /\ \E n \in 1..MaxNotes : \E c \in Contents :
          vault = [i \in 1..n |-> Note(i, c)]
    /\ llm \in BOOLEAN
    /\ hostAlive = TRUE
    /\ \E ids \in SUBSET (1..MaxNotes) :
          /\ ids \subseteq DOMAIN vault
          /\ stateFile = IF ids = {} THEN << >> ELSE <<Marshal(StoredFor(vault, ids))>>
          /\ areas = IF ids = {} THEN << >> ELSE CreateArea(<< >>, Personal).areas
          /\ projects = FiledProjects(CreateArea(<< >>, Personal).areas, << >>, ids)
    /\ tasks = {}
    /\ run = IdleRun
    /\ prev = NoPrev
    /\ nruns = 0
    /\ faults = 0

\* The early returns of Execute, before any note is read.
Preconditions ==
    {"ok", "vault_path not configured", "vault not found",
     "invalid since duration", "failed to read vault"}

\* Execute, up to the loop: the checks of the configuration, the load of the
\* persisted state (errors ignored), the read of the notes.
ExecuteBegin(dry, pre, getOk) ==
    /\ run.pc = "idle"
    /\ hostAlive
    /\ nruns < MaxRuns
    /\ nruns' = nruns + 1
    /\ Fault(pre # "ok" \/ (pre = "ok" /\ ~getOk))
    /\ run' = IF pre # "ok"
              THEN [IdleRun EXCEPT !.pc = "done", !.dryRun = dry,
                                   !.result = [NewResult EXCEPT !.Success = FALSE, !.Error = pre],
                                   !.fileAtStart = stateFile,
                                   !.storeAtStart = <<areas, projects, tasks>>]
              ELSE [IdleRun EXCEPT !.pc = "loop", !.dryRun = dry, !.notes = vault, !.i = 1,
                                   !.state = StateGet(stateFile, getOk),
                                   !.loaded = getOk,
                                   !.result = [NewResult EXCEPT !.Summary.ItemsProcessed = Len(vault)],
                                   !.fileAtStart = stateFile,
                                   !.storeAtStart = <<areas, projects, tasks>>]
    /\ UNCHANGED <<vault, llm, hostAlive, stateFile, areas, projects, tasks, prev>>

ExecuteItem(note, action) == [ID |-> note.ID, Name |-> note.Name, Action |-> action]

Reported_Uncounted(r, action) ==
    [r EXCEPT !.pc = "loop",
              !.i = r.i + 1,
              !.result.Summary.ItemsSkipped = @ + (IF action = "skipped" THEN 1 ELSE 0),
              !.result.Results = Append(@, ExecuteItem(r.notes[r.i], action)),
              !.trace = Append(@, [r.cur EXCEPT !.ID = r.notes[r.i].ID]),
              !.cur = NoStep,
              !.area = NoArea,
              !.project = NoProject]

\* The run after the current note was reported with an action: the counter
\* of that action incremented, the item appended, the loop moved on.
Reported(r, action) ==
    [r EXCEPT !.pc = "loop",
              !.i = r.i + 1,
              !.result.Summary.ItemsImported = @ + (IF action = "imported" THEN 1 ELSE 0),
              !.result.Summary.ItemsSkipped = @ + (IF action = "skipped" THEN 1 ELSE 0),
              !.result.Summary.ItemsFailed = @ + (IF action = "failed" THEN 1 ELSE 0),
              !.result.Results = Append(@, ExecuteItem(r.notes[r.i], action)),
              !.trace = Append(@, [r.cur EXCEPT !.ID = r.notes[r.i].ID]),
              !.cur = NoStep,
              !.area = NoArea,
              !.project = NoProject]

Failed_Abort(r, where) ==
    [Reported([r EXCEPT !.cur.failedAt = where], "failed") EXCEPT !.i = Len(r.notes) + 1]

\* The run after importNote returned an error: the note reported failed, the
\* loop continued.
Failed(r, where) == Reported([r EXCEPT !.cur.failedAt = where], "failed")

Imported_NoMark(r) == Reported(r, "imported")

\* The run after importNote returned nil: the hash recorded, then reported.
Imported(r) ==
    Reported([r EXCEPT !.state.ProcessedNotes =
                          [k \in DOMAIN @ \cup {r.notes[r.i].ID} |->
                              IF k = r.notes[r.i].ID THEN hashContent(r.notes[r.i].Content)
                              ELSE @[k]]],
             "imported")

\* existingHash, exists := state.ProcessedNotes[id]; exists && existingHash == hash
Unchanged(state, note) ==
    /\ note.ID \in DOMAIN state.ProcessedNotes
    /\ state.ProcessedNotes[note.ID] = hashContent(note.Content)

IsDryRun_Never(r) == FALSE

\* if params.DryRun
IsDryRun(r) == r.dryRun

\* The head of the loop for the next note: skipped when its hash is the
\* stored one, reported imported at once in a dry run, imported otherwise.
NextNote ==
    /\ run.pc = "loop"
    /\ run.i <= Len(run.notes)
    /\ run' = IF Unchanged(run.state, run.notes[run.i]) THEN Reported(run, "skipped")
              ELSE IF IsDryRun(run) THEN Reported(run, "imported")
              ELSE [run EXCEPT !.pc = "categorize"]
    /\ UNCHANGED <<vault, llm, hostAlive, stateFile, areas, projects, tasks, prev, nruns, faults>>

\* HostClient.CategorizeWithContext: (nil, nil) without an LLM client, else
\* what the LLM client answered.
HostCategorize(hasLLM, answer) ==
    IF ~hasLLM THEN [result |-> Nil, err |-> ""] ELSE answer

\* grpcHostServer.CategorizeWithContext: returns the error, else builds the
\* response from the fields of the result; a nil result is dereferenced.
HandleCategorize(r) ==
    IF r.err # "" THEN [panic |-> FALSE, result |-> Nil, err |-> r.err]
    ELSE IF r.result = Nil THEN [panic |-> TRUE, result |-> Nil, err |-> ""]
    ELSE [panic |-> FALSE, result |-> r.result, err |-> ""]

\* importNote: the categorization callback, with the default categorization
\* when it returns an error.
Categorize(answer) ==
    /\ run.pc = "categorize"
    /\ Fault(llm /\ answer.err # "")
    /\ LET h == HandleCategorize(HostCategorize(llm, answer))
       IN IF h.panic
          THEN /\ hostAlive' = FALSE
               /\ run' = [run EXCEPT !.pc = "aborted"]
          ELSE /\ hostAlive' = hostAlive
               /\ run' = [run EXCEPT !.pc = "area",
                                     !.cur.cat = IF h.err # "" THEN "error" ELSE "result",
                                     !.cur.used = IF h.err # "" THEN Fallback(run.notes[run.i])
                                                  ELSE h.result]
    /\ UNCHANGED <<vault, llm, stateFile, areas, projects, tasks, prev, nruns>>

\* importNote: p.host.FindOrCreateArea(ctx, catResult.Area)
FindArea(ok) ==
    /\ run.pc = "area"
    /\ Fault(~ok)
    /\ LET r == FindOrCreateArea(areas, run.cur.used.Area, ok)
       IN /\ areas' = r.areas
          /\ run' = IF r.err # ""
                    THEN Failed(run, "area")
                    ELSE [run EXCEPT !.pc = "project", !.area = r.area,
                                     !.calls = @ \cup (IF r.created THEN {"CreateArea"} ELSE {})]
    /\ UNCHANGED <<vault, llm, hostAlive, stateFile, projects, tasks, prev, nruns>>

\* projectTitle := catResult.ProjectSuggestion, note.Name when that is empty
ProjectTitle(cat, note) ==
    IF cat.ProjectSuggestion = << >> THEN note.Name ELSE cat.ProjectSuggestion

\* importNote: the project named by the categorization, else the one found
\* or created under the title; then on to the tasks if actionable.
FindProject(ok) ==
    /\ run.pc = "project"
    /\ Fault(~ok)
    /\ LET cat == run.cur.used
           got == IF cat.ProjectID # 0 THEN GetProject(projects, cat.ProjectID)
                  ELSE ProjectResult("no id", NoProject, projects, FALSE)
           r   == IF got.err = "" THEN got
                  ELSE FindOrCreateProject(areas, projects,
                                           ProjectTitle(cat, run.notes[run.i]), run.area.ID, ok)
       IN /\ projects' = r.projects
          /\ run' = IF r.err # ""
                    THEN Failed(run, "project")
                    ELSE LET r2 == [run EXCEPT !.project = r.project,
                                               !.calls = @ \cup (IF r.created THEN {"CreateProject"}
                                                                 ELSE {})]
                         IN IF cat.IsActionable THEN [r2 EXCEPT !.pc = "tasks"]
                            ELSE Imported(r2)
    /\ UNCHANGED <<vault, llm, hostAlive, stateFile, areas, tasks, prev, nruns>>

\* HostClient.ExtractTasks: (nil, nil) without an LLM client.
HostExtractTasks(hasLLM, answer) ==
    IF ~hasLLM THEN [tasks |-> << >>, err |-> ""] ELSE answer

\* importNote: ExtractTasks and a CreateTask per task, errors ignored.
ExtractTasks(answer) ==
    /\ run.pc = "tasks"
    /\ Fault(llm /\ answer.err # "")
    /\ LET r == HostExtractTasks(llm, answer)
           create == r.err = "" /\ r.tasks # << >>
       IN /\ tasks' = IF create
                      THEN CreateTask(tasks, r.tasks[1], run.project.ID, run.area.ID)
                      ELSE tasks
          /\ run' = Imported([run EXCEPT !.cur.extract = IF r.err # "" THEN "error" ELSE "tasks",
                                         !.calls = @ \cup (IF create THEN {"CreateTask"} ELSE {})])
    /\ UNCHANGED <<vault, llm, hostAlive, stateFile, areas, projects, prev, nruns>>

\* Execute, after the loop: the state is stamped and written unless this is
\* a dry run; the error of the write is ignored.
SaveState(ok) ==
    /\ run.pc = "loop"
    /\ run.i > Len(run.notes)
    /\ Fault(~ok)
    /\ IF IsDryRun(run)
       THEN /\ run' = [run EXCEPT !.pc = "done"]
            /\ UNCHANGED stateFile
       ELSE LET st == [run.state EXCEPT !.LastRun = nruns]
            IN /\ stateFile' = StateSet(stateFile, st, ok)
               /\ run' = [run EXCEPT !.pc = "done", !.state = st, !.saved = ok,
                                     !.calls = @ \cup {"SetState"}]
    /\ UNCHANGED <<vault, llm, hostAlive, areas, projects, tasks, prev, nruns>>

\* Execute returns its result to the caller.
ExecuteReturn ==
    /\ run.pc = "done"
    /\ prev' = [exists |-> TRUE, dryRun |-> run.dryRun, loaded |-> run.loaded,
                saved |-> run.saved, success |-> run.result.Success,
                results |-> run.result.Results,
                changed |-> FALSE, reloaded |-> FALSE]
    /\ run' = IdleRun
    /\ UNCHANGED <<vault, llm, hostAlive, stateFile, areas, projects, tasks, nruns, faults>>

\* The user edits one note between two runs.
EditNote(i, c) ==
    /\ run.pc = "idle"
    /\ nruns < MaxRuns
    /\ i \in DOMAIN vault
    /\ prev.exists /\ ~prev.changed
    /\ vault[i].Content # c
    /\ vault' = [vault EXCEPT ![i].Content = c]
    /\ prev' = [prev EXCEPT !.changed = prev.exists]
    /\ UNCHANGED <<llm, hostAlive, stateFile, areas, projects, tasks, run, nruns, faults>>

\* Manager.Unload then Manager.Load between two runs: a new plugin process,
\* configured with the same state directory.
Reload ==
    /\ run.pc = "idle"
    /\ hostAlive
    /\ nruns < MaxRuns
    /\ prev.exists /\ ~prev.reloaded
    /\ prev' = [prev EXCEPT !.reloaded = TRUE]
    /\ UNCHANGED <<vault, llm, hostAlive, stateFile, areas, projects, tasks, run, nruns, faults>>

ImpNext ==
    \/ \E dry \in BOOLEAN, pre \in Preconditions, getOk \in BOOLEAN :
          ExecuteBegin(dry, pre, getOk) /\ UNCHANGED <<mgrVars, dmnVars, kvVars, focVars>>
    \/ NextNote /\ UNCHANGED <<mgrVars, dmnVars, kvVars, focVars>>
    \/ \E answer \in LLMOutcomes(projects) : Categorize(answer) /\ UNCHANGED <<mgrVars, dmnVars, kvVars, focVars>>
    \/ \E ok \in BOOLEAN : FindArea(ok) /\ UNCHANGED <<mgrVars, dmnVars, kvVars, focVars>>
    \/ \E ok \in BOOLEAN : FindProject(ok) /\ UNCHANGED <<mgrVars, dmnVars, kvVars, focVars>>
    \/ \E answer \in ExtractOutcomes : ExtractTasks(answer) /\ UNCHANGED <<mgrVars, dmnVars, kvVars, focVars>>
    \/ \E ok \in BOOLEAN : SaveState(ok) /\ UNCHANGED <<mgrVars, dmnVars, kvVars, focVars>>
    \/ ExecuteReturn /\ UNCHANGED <<mgrVars, dmnVars, kvVars, focVars>>
    \/ \E i \in 1..MaxNotes, c \in Contents : EditNote(i, c) /\ UNCHANGED <<mgrVars, dmnVars, kvVars, focVars>>
    \/ Reload /\ UNCHANGED <<mgrVars, dmnVars, kvVars, focVars>>


(***************************************************************************)
(* The steps of the Manager.                                               *)
(***************************************************************************)
MgrNext ==
    \/ \E t \in Callers, name \in Names, config \in Configs : Load(t, name, config) /\ UNCHANGED <<impVars, dmnVars, kvVars, focVars>>
    \/ \E t \in Callers : LoadConnect(t) /\ UNCHANGED <<impVars, dmnVars, kvVars, focVars>>
    \/ \E t \in Callers : LoadDispense(t) /\ UNCHANGED <<impVars, dmnVars, kvVars, focVars>>
    \/ \E t \in Callers : LoadManifest(t) /\ UNCHANGED <<impVars, dmnVars, kvVars, focVars>>
    \/ \E t \in Callers : LoadMkdir(t) /\ UNCHANGED <<impVars, dmnVars, kvVars, focVars>>
    \/ \E t \in Callers : LoadConfigure(t) /\ UNCHANGED <<impVars, dmnVars, kvVars, focVars>>
    \/ \E t \in Callers, name \in Names : Unload(t, name) /\ UNCHANGED <<impVars, dmnVars, kvVars, focVars>>
    \/ \E t \in Callers : UnloadShutdown(t) /\ UNCHANGED <<impVars, dmnVars, kvVars, focVars>>
    \/ \E t \in Callers : UnloadKill(t) /\ UNCHANGED <<impVars, dmnVars, kvVars, focVars>>
    \/ \E t \in Callers, name \in Names : Execute(t, name) /\ UNCHANGED <<impVars, dmnVars, kvVars, focVars>>
    \/ \E t \in Callers : ExecCall(t) /\ UNCHANGED <<impVars, dmnVars, kvVars, focVars>>
    \/ \E t \in Callers : ExecReturn(t) /\ UNCHANGED <<impVars, dmnVars, kvVars, focVars>>
    \/ \E t \in Callers : ExecExpire(t) /\ UNCHANGED <<impVars, dmnVars, kvVars, focVars>>
    \/ \E t \in Callers : ListLoaded(t) /\ UNCHANGED <<impVars, dmnVars, kvVars, focVars>>
    \/ \E t \in Callers, name \in Names : GetLoaded(t, name) /\ UNCHANGED <<impVars, dmnVars, kvVars, focVars>>
    \/ \E t \in Callers, name \in Names : GetManifest(t, name) /\ UNCHANGED <<impVars, dmnVars, kvVars, focVars>>
    \/ \E t \in Callers : ProbeConnect(t) /\ UNCHANGED <<impVars, dmnVars, kvVars, focVars>>
    \/ \E t \in Callers : ProbeDispense(t) /\ UNCHANGED <<impVars, dmnVars, kvVars, focVars>>
    \/ \E t \in Callers : ProbeManifest(t) /\ UNCHANGED <<impVars, dmnVars, kvVars, focVars>>
    \/ \E t \in Callers : Shutdown(t) /\ UNCHANGED <<impVars, dmnVars, kvVars, focVars>>
    \/ \E t \in Callers : ShutdownEach(t) /\ UNCHANGED <<impVars, dmnVars, kvVars, focVars>>
    \/ \E t \in Callers : ShutdownClear(t) /\ UNCHANGED <<impVars, dmnVars, kvVars, focVars>>
    \/ \E t \in Callers : Resume(t) /\ UNCHANGED <<impVars, dmnVars, kvVars, focVars>>
    \/ \E pid \in DOMAIN procs : Crash(pid) /\ UNCHANGED <<impVars, dmnVars, kvVars, focVars>>

(***************************************************************************)
(* The steps of the Daemon: its methods, called from the command's         *)
(* goroutine "cli" and from the cron engine's goroutine "cron", and the    *)
(* steps of the Manager calls they make.  A plugin process that has died   *)
(* shows as a failing call; the failing outcomes of the Manager's steps    *)
(* cover it.                                                               *)
(***************************************************************************)
\* The plugins a manual command may name.
ManualNames == {"notes", "ghost"}

DmnNext ==
    \/ \E su \in Setups :
          Start("cli", su.available, su.cfgs) /\ UNCHANGED <<impVars, kvVars, focVars>>
    \/ StartLoop("cli") /\ UNCHANGED <<impVars, kvVars, focVars>>
    \/ SchedManifest("cli") /\ UNCHANGED <<impVars, kvVars, focVars>>
    \/ SchedLoad("cli") /\ UNCHANGED <<impVars, kvVars, focVars>>
    \/ SchedAddFunc("cli") /\ UNCHANGED <<impVars, kvVars, focVars>>
    \/ \E e \in DOMAIN sched.entries : Fire("cron", e) /\ UNCHANGED <<impVars, kvVars, focVars>>
    \/ FireDone("cron") /\ UNCHANGED <<impVars, kvVars, focVars>>
    \/ Stop("cli") /\ UNCHANGED <<impVars, kvVars, focVars>>
    \/ StopShutdown("cli") /\ UNCHANGED <<impVars, kvVars, focVars>>
    \/ StopClear("cli") /\ UNCHANGED <<impVars, kvVars, focVars>>
    \/ \E t \in Callers, name \in ManualNames, dryRun \in BOOLEAN :
          TriggerPlugin(t, name, dryRun) /\ UNCHANGED <<impVars, kvVars, focVars>>
    \/ \E t \in Callers : TriggerChecked(t) /\ UNCHANGED <<impVars, kvVars, focVars>>
    \/ \E t \in Callers : TriggerLoad(t) /\ UNCHANGED <<impVars, kvVars, focVars>>
    \/ \E t \in Callers : TriggerLoaded(t) /\ UNCHANGED <<impVars, kvVars, focVars>>
    \/ \E t \in Callers : TriggerExec(t) /\ UNCHANGED <<impVars, kvVars, focVars>>
    \/ \E t \in Callers : TriggerDone(t) /\ UNCHANGED <<impVars, kvVars, focVars>>
    \/ \E su \in Setups :
          RunOnce("cli", su.available, su.cfgs) /\ UNCHANGED <<impVars, kvVars, focVars>>
    \/ RunOnceLoop("cli") /\ UNCHANGED <<impVars, kvVars, focVars>>
    \/ RunOnceLoaded("cli") /\ UNCHANGED <<impVars, kvVars, focVars>>
    \/ RunOnceExec("cli") /\ UNCHANGED <<impVars, kvVars, focVars>>
    \/ RunOnceExecuted("cli") /\ UNCHANGED <<impVars, kvVars, focVars>>
    \/ RunOnceUnload("cli") /\ UNCHANGED <<impVars, kvVars, focVars>>
    \/ RunOnceUnloaded("cli") /\ UNCHANGED <<impVars, kvVars, focVars>>
    \/ \E name \in ManualNames, dryRun \in BOOLEAN :
          RunPluginOnce("cli", name, PluginConfig(TRUE, << >>, "cfgA"), dryRun)
            /\ UNCHANGED <<impVars, kvVars, focVars>>
    \/ RunPluginLoaded("cli") /\ UNCHANGED <<impVars, kvVars, focVars>>
    \/ RunPluginExec("cli") /\ UNCHANGED <<impVars, kvVars, focVars>>
    \/ RunPluginExecuted("cli") /\ UNCHANGED <<impVars, kvVars, focVars>>
    \/ RunPluginUnload("cli") /\ UNCHANGED <<impVars, kvVars, focVars>>
    \/ RunPluginUnloaded("cli") /\ UNCHANGED <<impVars, kvVars, focVars>>
    \/ \E t \in Callers : LoadConnect(t) /\ UNCHANGED <<impVars, dmnVars, kvVars, focVars>>
    \/ \E t \in Callers : LoadDispense(t) /\ UNCHANGED <<impVars, dmnVars, kvVars, focVars>>
    \/ \E t \in Callers : LoadManifest(t) /\ UNCHANGED <<impVars, dmnVars, kvVars, focVars>>
    \/ \E t \in Callers : LoadMkdir(t) /\ UNCHANGED <<impVars, dmnVars, kvVars, focVars>>
    \/ \E t \in Callers : LoadConfigure(t) /\ UNCHANGED <<impVars, dmnVars, kvVars, focVars>>
    \/ \E t \in Callers : UnloadShutdown(t) /\ UNCHANGED <<impVars, dmnVars, kvVars, focVars>>
    \/ \E t \in Callers : UnloadKill(t) /\ UNCHANGED <<impVars, dmnVars, kvVars, focVars>>
    \/ \E t \in Callers : ExecCall(t) /\ UNCHANGED <<impVars, dmnVars, kvVars, focVars>>
    \/ \E t \in Callers : ExecReturn(t) /\ UNCHANGED <<impVars, dmnVars, kvVars, focVars>>
    \/ \E t \in Callers : ExecExpire(t) /\ UNCHANGED <<impVars, dmnVars, kvVars, focVars>>
    \/ \E t \in Callers : ProbeConnect(t) /\ UNCHANGED <<impVars, dmnVars, kvVars, focVars>>
    \/ \E t \in Callers : ProbeDispense(t) /\ UNCHANGED <<impVars, dmnVars, kvVars, focVars>>
    \/ \E t \in Callers : ProbeManifest(t) /\ UNCHANGED <<impVars, dmnVars, kvVars, focVars>>
    \/ \E t \in Callers : ShutdownEach(t) /\ UNCHANGED <<impVars, dmnVars, kvVars, focVars>>
    \/ \E t \in Callers : ShutdownClear(t) /\ UNCHANGED <<impVars, dmnVars, kvVars, focVars>>

\* The steps of a Daemon that is started and stopped by the command and
\* fires its entries.
RestartNext ==
    \/ \E su \in Setups :
          Start("cli", su.available, su.cfgs) /\ UNCHANGED <<impVars, kvVars, focVars>>
    \/ StartLoop("cli") /\ UNCHANGED <<impVars, kvVars, focVars>>
    \/ SchedManifest("cli") /\ UNCHANGED <<impVars, kvVars, focVars>>
    \/ SchedLoad("cli") /\ UNCHANGED <<impVars, kvVars, focVars>>
    \/ SchedAddFunc("cli") /\ UNCHANGED <<impVars, kvVars, focVars>>
    \/ \E e \in DOMAIN sched.entries : Fire("cron", e) /\ UNCHANGED <<impVars, kvVars, focVars>>
    \/ FireDone("cron") /\ UNCHANGED <<impVars, kvVars, focVars>>
    \/ Stop("cli") /\ UNCHANGED <<impVars, kvVars, focVars>>
    \/ StopShutdown("cli") /\ UNCHANGED <<impVars, kvVars, focVars>>
    \/ StopClear("cli") /\ UNCHANGED <<impVars, kvVars, focVars>>
    \/ \E t \in Callers : LoadConnect(t) /\ UNCHANGED <<impVars, dmnVars, kvVars, focVars>>
    \/ \E t \in Callers : LoadDispense(t) /\ UNCHANGED <<impVars, dmnVars, kvVars, focVars>>
    \/ \E t \in Callers : LoadManifest(t) /\ UNCHANGED <<impVars, dmnVars, kvVars, focVars>>
    \/ \E t \in Callers : LoadMkdir(t) /\ UNCHANGED <<impVars, dmnVars, kvVars, focVars>>
    \/ \E t \in Callers : LoadConfigure(t) /\ UNCHANGED <<impVars, dmnVars, kvVars, focVars>>
    \/ \E t \in Callers : ExecCall(t) /\ UNCHANGED <<impVars, dmnVars, kvVars, focVars>>
    \/ \E t \in Callers : ExecReturn(t) /\ UNCHANGED <<impVars, dmnVars, kvVars, focVars>>
    \/ \E t \in Callers : ExecExpire(t) /\ UNCHANGED <<impVars, dmnVars, kvVars, focVars>>
    \/ \E t \in Callers : ProbeConnect(t) /\ UNCHANGED <<impVars, dmnVars, kvVars, focVars>>
    \/ \E t \in Callers : ProbeDispense(t) /\ UNCHANGED <<impVars, dmnVars, kvVars, focVars>>
    \/ \E t \in Callers : ProbeManifest(t) /\ UNCHANGED <<impVars, dmnVars, kvVars, focVars>>
    \/ \E t \in Callers : ShutdownEach(t) /\ UNCHANGED <<impVars, dmnVars, kvVars, focVars>>
    \/ \E t \in Callers : ShutdownClear(t) /\ UNCHANGED <<impVars, dmnVars, kvVars, focVars>>

(***************************************************************************)
(* The host's state store: HostClient.GetState, SetState and DeleteState,  *)
(* one file per key under the plugin's state directory.  A string is a     *)
(* sequence of characters; a path is a sequence of components.             *)
(***************************************************************************)
\* Characters of the keys a plugin passes: the two separators, the dot and
\* an ordinary character.
KeyChars == {"/", "\\", ".", "k"}

\* Length of the longest key.
MaxKeyLen == 2

Keys == UNION {[1..n -> KeyChars] : n \in 0..MaxKeyLen}

\* The keys of the plugins that are followed across a reload: an ordinary
\* key, the two separators and the parent directory.
StoredKeys == {<<"k">>, <<"/">>, <<"\\">>, <<".", ".">>}

\* The plugins that store state, and the values they store.
StatePlugins == {"notes", "obsidian"}
StateValues == {"v1", "v2"}

\* State calls the host serves in one behaviour.
MaxStateCalls == 2

\* strings.ReplaceAll(s, old, new) for a non-empty old: the non-overlapping
\* occurrences of old, found from the left.
RECURSIVE ReplaceAll(_, _, _)
ReplaceAll(s, old, new) ==
    IF Len(s) < Len(old) THEN s
    ELSE IF SubSeq(s, 1, Len(old)) = old
         THEN new \o ReplaceAll(SubSeq(s, Len(old) + 1, Len(s)), old, new)
         ELSE <<Head(s)>> \o ReplaceAll(Tail(s), old, new)

\* sanitizeKey without its first replacement.
sanitizeKey_KeepSlash(key) ==
    ReplaceAll(ReplaceAll(key, <<"\\">>, <<"_">>), <<".", ".">>, <<"_">>)

sanitizeKey(key) ==
    ReplaceAll(ReplaceAll(ReplaceAll(key, <<"/">>, <<"_">>),
                          <<"\\">>, <<"_">>),
               <<".", ".">>, <<"_">>)

\* The components of a path string, split at the separator of the host's
\* operating system.
RECURSIVE Split(_)
Split(s) ==
    IF \A i \in 1..Len(s) : s[i] # "/" THEN <<s>>
    ELSE LET i == CHOOSE i \in 1..Len(s) :
                     s[i] = "/" /\ \A j \in 1..(i - 1) : s[j] # "/"
         IN <<SubSeq(s, 1, i - 1)>> \o Split(SubSeq(s, i + 1, Len(s)))

\* filepath.Clean of a rooted path: empty and "." components are dropped, a
\* ".." component removes the one before it.
RECURSIVE Clean(_, _)
Clean(done, rest) ==
    IF rest = << >> THEN done
    ELSE LET c == Head(rest)
         IN IF c = << >> \/ c = <<".">> THEN Clean(done, Tail(rest))
            ELSE IF c = <<".", ".">>
                 THEN Clean(IF done = << >> THEN << >>
                            ELSE SubSeq(done, 1, Len(done) - 1), Tail(rest))
                 ELSE Clean(Append(done, c), Tail(rest))

\* filepath.Join(dir, file)
Join(dir, file) == Clean(<< >>, dir \o Split(file))

\* filepath.Join(m.stateDir, "plugins", name)
StateDir(name) == <<<<"state">>, <<"plugins">>, <<name>>>>

JsonExt == <<".", "j", "s", "o", "n">>

\* filepath.Join(h.stateDir, sanitizeKey(key)+".json")
StatePath(name, key) == Join(StateDir(name), sanitizeKey(key) \o JsonExt)

\* The plugin process that holds the HostClient of name: Configure handed it
\* the host's callback server.
HasHost(name) ==
    \E pid \in DOMAIN procs :
        procs[pid].name = name /\ procs[pid].alive /\ procs[pid].gotConfigure

NoKvRet ==
    [ calls |-> 0, op |-> "", name |-> "", key |-> << >>, path |-> << >>,
      data |-> "", found |-> FALSE, err |-> "" ]

\* What a state call returns, with the path it used; calls counts the calls
\* served.
KvReturn(op, name, key, path, data, found, err) ==
    [ calls |-> kvret.calls + 1, op |-> op, name |-> name, key |-> key,
      path |-> path, data |-> data, found |-> found, err |-> err ]

\* files[path] = bytes
PutFile(path, bytes) ==
    [p \in (DOMAIN files) \cup {path} |-> IF p = path THEN bytes ELSE files[p]]

\* the file at path is removed
DropFile(path) == [p \in (DOMAIN files) \ {path} |-> files[p]]

\* The last SetState or DeleteState of key by name that returned nil.
Record(name, key, entry) ==
    [k \in (DOMAIN written) \cup {<<name, key>>} |->
        IF k = <<name, key>> THEN entry ELSE written[k]]

CanServe(name) == HasHost(name) /\ kvret.calls < MaxStateCalls

\* func (h *HostClient) GetState(ctx, key) ([]byte, bool, error)
GetState(name, key) ==
    /\ CanServe(name)
    /\ \E outcome \in {"ok", "mkdir", "read"} :
         LET path == StatePath(name, key)
         IN kvret' =
              IF outcome = "mkdir" THEN KvReturn("GetState", name, key, path, "", FALSE, "mkdir error")
              ELSE IF path \notin DOMAIN files
                   THEN KvReturn("GetState", name, key, path, "", FALSE, "")
                   ELSE IF outcome = "read"
                        THEN KvReturn("GetState", name, key, path, "", FALSE, "read error")
                        ELSE KvReturn("GetState", name, key, path, files[path], TRUE, "")
    /\ UNCHANGED <<files, written>>

\* func (h *HostClient) SetState(ctx, key, value) error.  A WriteFile that
\* fails leaves the file as it was or truncated.
SetState(name, key, value) ==
    /\ CanServe(name)
    /\ \E outcome \in {"ok", "mkdir", "open", "write"} :
         LET path == StatePath(name, key)
         IN CASE outcome = "ok" ->
                   /\ files' = PutFile(path, value)
                   /\ written' = Record(name, key, [set |-> TRUE, value |-> value])
                   /\ kvret' = KvReturn("SetState", name, key, path, "", FALSE, "")
              [] outcome = "mkdir" ->
                   /\ kvret' = KvReturn("SetState", name, key, path, "", FALSE, "mkdir error")
                   /\ UNCHANGED <<files, written>>
              [] outcome = "open" ->
                   /\ kvret' = KvReturn("SetState", name, key, path, "", FALSE, "write error")
                   /\ UNCHANGED <<files, written>>
              [] outcome = "write" ->
                   /\ files' = PutFile(path, "")
                   /\ kvret' = KvReturn("SetState", name, key, path, "", FALSE, "write error")
                   /\ UNCHANGED written

\* func (h *HostClient) DeleteState(ctx, key) error
DeleteState(name, key) ==
    /\ CanServe(name)
    /\ \E outcome \in {"ok", "remove"} :
         LET path == StatePath(name, key)
         IN IF outcome = "remove" /\ path \in DOMAIN files
            THEN /\ kvret' = KvReturn("DeleteState", name, key, path, "", FALSE, "remove error")
                 /\ UNCHANGED <<files, written>>
            ELSE /\ files' = DropFile(path)
                 /\ written' = Record(name, key, [set |-> FALSE, value |-> ""])
                 /\ kvret' = KvReturn("DeleteState", name, key, path, "", FALSE, "")

(***************************************************************************)
(* The steps of the state store: the command's goroutine loads and unloads *)
(* the plugins, and a configured plugin calls the state functions of its   *)
(* HostClient.                                                             *)
(***************************************************************************)
KvNext ==
    \/ \E name \in StatePlugins : Load("cli", name, "cfgA") /\ UNCHANGED <<impVars, dmnVars, kvVars, focVars>>
    \/ LoadConnect("cli") /\ UNCHANGED <<impVars, dmnVars, kvVars, focVars>>
    \/ LoadDispense("cli") /\ UNCHANGED <<impVars, dmnVars, kvVars, focVars>>
    \/ LoadManifest("cli") /\ UNCHANGED <<impVars, dmnVars, kvVars, focVars>>
    \/ LoadMkdir("cli") /\ UNCHANGED <<impVars, dmnVars, kvVars, focVars>>
    \/ LoadConfigure("cli") /\ UNCHANGED <<impVars, dmnVars, kvVars, focVars>>
    \/ \E name \in StatePlugins : Unload("cli", name) /\ UNCHANGED <<impVars, dmnVars, kvVars, focVars>>
    \/ UnloadShutdown("cli") /\ UNCHANGED <<impVars, dmnVars, kvVars, focVars>>
    \/ UnloadKill("cli") /\ UNCHANGED <<impVars, dmnVars, kvVars, focVars>>
    \/ Resume("cli") /\ UNCHANGED <<impVars, dmnVars, kvVars, focVars>>
    \/ \E name \in StatePlugins, key \in StoredKeys :
          GetState(name, key) /\ UNCHANGED <<mgrVars, impVars, dmnVars, focVars>>
    \/ \E name \in StatePlugins, key \in StoredKeys, value \in StateValues :
          SetState(name, key, value) /\ UNCHANGED <<mgrVars, impVars, dmnVars, focVars>>
    \/ \E name \in StatePlugins, key \in StoredKeys :
          DeleteState(name, key) /\ UNCHANGED <<mgrVars, impVars, dmnVars, focVars>>

\* A plugin process that Load has configured.
Configured(name) == [NewProc(name, HostHandshake) EXCEPT !.gotConfigure = TRUE]

\* The Manager after Load of "notes" and Load of "obsidian" returned nil.
MgrLoaded ==
    /\ procs = <<Configured("notes"), Configured("obsidian")>>
    /\ plugins = [name \in StatePlugins |->
                    LoadedPlugin(name, IF name = "notes" THEN 1 ELSE 2, "cfgA")]
    /\ mu = NoCaller
    /\ pc = [t \in Callers |-> "idle"]
    /\ call = [t \in Callers |-> NoCall]
    /\ cli = [t \in Callers |-> 0]
    /\ ret = [t \in Callers |-> NoRet]

\* The state calls of two loaded plugins, with every key.
KeysNext ==
    \/ \E name \in StatePlugins, key \in Keys :
          GetState(name, key) /\ UNCHANGED <<mgrVars, impVars, dmnVars, focVars>>
    \/ \E name \in StatePlugins, key \in Keys, value \in StateValues :
          SetState(name, key, value) /\ UNCHANGED <<mgrVars, impVars, dmnVars, focVars>>
    \/ \E name \in StatePlugins, key \in Keys :
          DeleteState(name, key) /\ UNCHANGED <<mgrVars, impVars, dmnVars, focVars>>

(***************************************************************************)
(* Properties of the Manager.                                              *)
(***************************************************************************)
LoadSteps == {"load_connect", "load_dispense", "load_manifest", "load_mkdir", "load_configure"}

\* The processes that were configured for name and not killed since: the
\* running instances of the plugin.
Instances(name) ==
    {pid \in DOMAIN procs :
        procs[pid].name = name /\ procs[pid].gotConfigure /\ ~procs[pid].killed}

\* C1: a Load of a name that is in the loaded set returns "already loaded",
\* spawns nothing and leaves the table (process, manifest, config of every
\* record) as it was; a Load goes on to spawn only for a name that is not
\* loaded; and in every state the running instances of a name are at most the
\* one process its record names, whatever the interleaving of the callers.
C1_AtMostOneLoad ==
    [][ /\ \A t \in Callers :
            /\ (pc[t] = "idle" /\ pc'[t] = "returned" /\ ret'[t].op = "Load"
                  /\ ret'[t].name \in DOMAIN plugins)
               => /\ ret'[t].err = "already loaded"
                  /\ plugins' = plugins
                  /\ procs' = procs
            /\ (pc[t] = "idle" /\ pc'[t] = "load_connect")
               => call'[t].name \notin DOMAIN plugins
        /\ \A n \in Names :
             Instances(n)' \subseteq
                (IF n \in DOMAIN plugins' THEN {plugins'[n].Client} ELSE {})
      ]_vars

\* C1 witness: a Load has just returned "already loaded" for a plugin whose
\* first instance is still registered and running.
C1_Witness ==
    \E t \in Callers :
        /\ pc[t] = "returned" /\ ret[t].op = "Load" /\ ret[t].err = "already loaded"
        /\ ret[t].name \in DOMAIN plugins
        /\ procs[plugins[ret[t].name].Client].alive

\* C2: a Load that fails after its process was spawned returns an error with
\* that process killed and the table unchanged; a Load spawns at most one
\* process (no retry); a process whose handshake did not match is dead and has
\* received neither Configure nor Execute.
C2_LoadFailureCleansUp ==
    [][ /\ \A t \in Callers :
            (pc[t] \in LoadSteps /\ pc'[t] = "returned" /\ ret'[t].err # "")
            => LET pid == IF cli[t] # 0 THEN cli[t] ELSE Len(procs')
               IN /\ procs'[pid].killed /\ ~procs'[pid].alive
                  /\ plugins' = plugins
                  /\ \A n \in DOMAIN plugins' : plugins'[n].Client # pid
        /\ \A t \in Callers : call'[t].spawns <= 1
        /\ \A pid \in DOMAIN procs' :
            ~HandshakeOK(procs'[pid].handshake)
            => /\ ~procs'[pid].alive /\ procs'[pid].killed
               /\ ~procs'[pid].gotConfigure /\ ~procs'[pid].gotExecute
      ]_vars

\* C2 witness: one Load failed in the handshake and another failed in
\* Configure after the plugin had received the request; both processes are
\* dead and nothing is registered.
C2_Witness ==
    /\ \E pid \in DOMAIN procs : ~HandshakeOK(procs[pid].handshake) /\ procs[pid].killed
    /\ \E pid \in DOMAIN procs : procs[pid].gotConfigure /\ procs[pid].killed
    /\ \E t \in Callers :
         pc[t] = "returned" /\ ret[t].op = "Load" /\ ret[t].err = "failed to configure"
    /\ plugins = << >>

\* C9: once Unload has found the plugin it goes through Shutdown to the kill
\* whatever Shutdown answered, and its last step leaves the process killed,
\* the record removed and returns no error.
C9_UnloadAlwaysKills ==
    [][ \A t \in Callers :
          /\ (pc[t] = "unload_shutdown" /\ pc'[t] # pc[t]) => pc'[t] = "unload_kill"
          /\ (pc[t] = "unload_kill" /\ pc'[t] # pc[t])
             => /\ pc'[t] = "returned"
                /\ ret'[t].op = "Unload" /\ ret'[t].err = ""
                /\ procs'[cli[t]].killed /\ ~procs'[cli[t]].alive
                /\ call[t].name \notin DOMAIN plugins'
      ]_vars

\* C9 witness: an Unload whose Shutdown call failed has returned without
\* error; the plugin is gone from the table and its process is killed.
C9_Witness ==
    \E t \in Callers :
        /\ pc[t] = "returned" /\ ret[t].op = "Unload" /\ ret[t].err = ""
        /\ ret[t].val = {"plugin shutdown returned error"}
        /\ ret[t].name \notin DOMAIN plugins
        /\ \E pid \in DOMAIN procs : procs[pid].name = ret[t].name /\ procs[pid].killed

\* C10: Unload and Execute of a name that is not loaded return "not loaded"
\* at once, with the table and the processes untouched, and they go on only
\* for a name that is loaded.
C10_NotLoadedIsNoOp ==
    [][ \A t \in Callers :
          /\ (pc[t] = "idle" /\ pc'[t] = "returned" /\ ret'[t].op \in {"Unload", "Execute"})
             => /\ ret'[t].err = "not loaded"
                /\ ret'[t].name \notin DOMAIN plugins
                /\ plugins' = plugins
                /\ procs' = procs
          /\ (pc[t] = "idle" /\ pc'[t] \in {"unload_shutdown", "exec_call"})
             => call'[t].name \in DOMAIN plugins
      ]_vars

\* C10 witness: an Unload of a name that is not loaded has returned
\* "not loaded" while another plugin is loaded.
C10_Witness ==
    \E t \in Callers :
        /\ pc[t] = "returned" /\ ret[t].op = "Unload" /\ ret[t].err = "not loaded"
        /\ ret[t].name \notin DOMAIN plugins
        /\ plugins # << >>

\* C17: an Execute that fails because the plugin's process is gone returns
\* with that plugin removed from the loaded set, so that a following Load of
\* the name is not refused as "already loaded".
C17_DeadPluginRemoved ==
    [][ \A t \in Callers :
          (/\ pc[t] \in {"exec_call", "exec_wait"}
           /\ pc'[t] = "returned"
           /\ ret'[t].err = "plugin execution failed"
           /\ ~procs[cli[t]].alive)
          => call[t].name \notin DOMAIN plugins'
      ]_vars

ProbeSteps == {"probe_connect", "probe_dispense", "probe_manifest"}

\* No Manager operation is in progress.
Quiescent == \A t \in Callers : pc[t] \in {"idle", "returned"}

\* The processes the records of the loaded set name.
LoadedProcs == {plugins[n].Client : n \in DOMAIN plugins}

HasReturned(t, op) == frame[t].op = op /\ frame[t].stage = "returned"

\* The plugins a Daemon method of caller t loaded itself.
LoadedBy(t) == {procs[pid].name : pid \in frame[t].loaded}

\* The cron entry d.jobs holds for a plugin.
JobOf(name) == sched.entries[jobs[name]]

\* C11: when Start has returned, d.jobs holds one job for each plugin that
\* Start loaded and no other, each job is a cron entry of that plugin with
\* the effective schedule (the override of the configuration, else the
\* manifest's), and every plugin Start loaded is enabled and has a non-empty
\* effective schedule.
C11_StartSchedulesLoaded ==
    HasReturned("cli", "Start")
    => /\ DOMAIN jobs = LoadedBy("cli")
       /\ \A n \in DOMAIN jobs :
            /\ JobOf(n).name = n
            /\ JobOf(n).schedule =
                 EffectiveSchedule(PluginConfigFor(frame["cli"].cfgs, n), ManifestOf(n))
            /\ Cardinality({e \in DOMAIN sched.entries : sched.entries[e].name = n}) = 1
       /\ \A n \in LoadedBy("cli") :
            /\ PluginConfigFor(frame["cli"].cfgs, n).Enabled
            /\ EffectiveSchedule(PluginConfigFor(frame["cli"].cfgs, n), ManifestOf(n)) # << >>

\* The step in which Stop returns.
StopReturns == frame["cli"].stage = "stop_wait" /\ frame'["cli"].stage = "returned"

\* C12 as stated: when Stop returns the cron engine is stopped, every plugin
\* that was loaded has its process killed, the loaded set is empty and
\* d.jobs is empty.
C12_Original ==
    [][ StopReturns
        => /\ ~sched'.running
           /\ \A pid \in frame["cli"].loaded : procs'[pid].killed
           /\ plugins' = << >>
           /\ jobs' = << >>
      ]_vars

\* C12: a fire starts only while the cron engine runs, and Stop stops the
\* engine first.  Manager.Shutdown goes through every plugin of the loaded
\* set, killing its process whatever its Shutdown call answered, and ends
\* with the loaded set empty.  When Stop returns the engine is stopped,
\* d.jobs is empty, every process that was in the loaded set when Shutdown
\* began is killed and in no record; the loaded set is empty unless another
\* caller's TriggerPlugin has loaded a plugin since Shutdown emptied it.
C12_StopShutsDown ==
    [][ /\ (frame'["cron"].stage = "fire_wait" /\ frame["cron"].stage # "fire_wait")
           => sched.running
        /\ (frame'["cli"].stage = "stop_shutdown" /\ frame["cli"].stage # "stop_shutdown")
           => ~sched'.running
        /\ \A t \in Callers :
             /\ (pc[t] = "shutdown_each" /\ pc'[t] = "shutdown_each" /\ call'[t] # call[t])
                => /\ Cardinality(call[t].todo \ call'[t].todo) = 1
                   /\ call'[t].todo \subseteq call[t].todo
                   /\ \A n \in call[t].todo \ call'[t].todo :
                        procs'[plugins[n].Client].killed
                   /\ plugins' = plugins
             /\ (pc[t] = "shutdown_each" /\ pc'[t] = "returned")
                => /\ plugins' = << >>
                   /\ \A pid \in LoadedProcs : procs'[pid].killed /\ ~procs'[pid].alive
        /\ StopReturns
           => /\ ~sched'.running
              /\ jobs' = << >>
              /\ \A pid \in frame["cli"].loaded :
                   procs'[pid].killed /\ pid \notin LoadedProcs'
              /\ plugins' # << >> => frame["cron"].op = "TriggerPlugin"
      ]_vars

\* C12 witness: Stop has returned after two plugins were loaded and the
\* Shutdown call of one of them failed; both processes are killed, the
\* loaded set and d.jobs are empty, the engine is stopped.
C12_Witness ==
    /\ HasReturned("cli", "Stop")
    /\ Cardinality(frame["cli"].loaded) = 2
    /\ frame["cli"].err = "plugin shutdown error"
    /\ \A pid \in frame["cli"].loaded : procs[pid].killed
    /\ plugins = << >> /\ jobs = << >> /\ ~sched.running

\* C13: when RunOnce has returned, every plugin process RunOnce loaded is
\* killed and in no record of the loaded set, whether its Execute succeeded
\* or returned an error.
C13_RunOnceUnloads ==
    HasReturned("cli", "RunOnce")
    => \A pid \in frame["cli"].loaded : procs[pid].killed /\ pid \notin LoadedProcs

\* The step in which RunPluginOnce returns.
RunPluginReturns ==
    /\ frame["cli"].op = "RunPluginOnce"
    /\ frame["cli"].stage # "returned" /\ frame'["cli"].stage = "returned"

\* C14: RunPluginOnce returns either with a load error, having called
\* neither Execute nor Unload and having left the loaded set and the
\* processes as they were (an instance that was already loaded stays, with
\* its process not killed), or after one Execute and one Unload, with the
\* process it loaded killed and in no record, whether Execute succeeded or
\* failed; no step of it touches the record of another plugin.
C14_RunPluginOnceCleansUp ==
    [][ /\ RunPluginReturns
           => LET fr == frame'["cli"]
              IN IF fr.loaded = {}
                 THEN /\ fr.err # "" /\ fr.execs = 0 /\ fr.unloads = 0
                      /\ plugins' = plugins /\ procs' = procs
                      /\ fr.err = "already loaded"
                         => /\ fr.name \in DOMAIN plugins'
                            /\ ~procs'[plugins'[fr.name].Client].killed
                 ELSE /\ fr.execs = 1 /\ fr.unloads = 1
                      /\ \A pid \in fr.loaded :
                           /\ procs'[pid].name = fr.name
                           /\ procs'[pid].killed /\ pid \notin LoadedProcs'
        /\ (frame["cli"].op = "RunPluginOnce" /\ pc'["cli"] # pc["cli"])
           => \A n \in (DOMAIN plugins \cup DOMAIN plugins') \ {frame["cli"].name} :
                 /\ n \in DOMAIN plugins /\ n \in DOMAIN plugins'
                 /\ plugins'[n] = plugins[n]
      ]_vars

\* C14 witness: RunPluginOnce has returned the error of a failed Execute;
\* the process it loaded is killed and the plugin is not in the loaded set.
C14_Witness ==
    /\ HasReturned("cli", "RunPluginOnce")
    /\ frame["cli"].execErrs = 1 /\ frame["cli"].err = "plugin execution failed"
    /\ frame["cli"].loaded # {}
    /\ \A pid \in frame["cli"].loaded : procs[pid].killed /\ procs[pid].gotConfigure
    /\ frame["cli"].name \notin DOMAIN plugins

\* C15: when the callers are both in TriggerPlugin for the same name, neither
\* call returns the load error "already loaded": a caller that found the
\* plugin not loaded is not overtaken by the other caller's Load.
C15_TriggerNeverLosesRace ==
    \A t \in Callers : \A u \in Callers \ {t} :
        (/\ HasReturned(t, "TriggerPlugin")
         /\ frame[u].op = "TriggerPlugin"
         /\ frame[u].name = frame[t].name)
        => frame[t].err # "already loaded"

\* C16: no step of a scheduled fire changes d.jobs, the cron entries or the
\* loaded set; a fire calls Execute once, also when Execute fails; and when
\* a failed fire has ended the plugin's job and cron entry are still there,
\* so that the engine fires it again.
C16_RetryBySchedule ==
    [][ \A t \in Callers :
          /\ (frame'[t].op = "fire" /\ (frame'[t] # frame[t] \/ pc'[t] # pc[t]))
             => /\ jobs' = jobs
                /\ sched' = sched
                /\ plugins' = plugins
                /\ frame'[t].execs = 1
          /\ (frame[t].stage = "fire_wait" /\ frame'[t].stage = "returned"
                 /\ frame'[t].err # "")
             => /\ frame[t].name \in DOMAIN jobs => frame[t].name \in DOMAIN jobs'
                /\ \E e \in DOMAIN sched'.entries : sched'.entries[e].name = frame[t].name
      ]_vars

\* C16 witness: the engine has fired a plugin again whose previous fire
\* failed; its job is registered and another plugin is scheduled too.
C16_Witness ==
    /\ frame["cron"].op = "fire" /\ frame["cron"].stage = "fire_wait"
    /\ frame["cron"].afterFailure
    /\ sched.running
    /\ frame["cron"].name \in DOMAIN jobs
    /\ Cardinality(DOMAIN jobs) = 2

(***************************************************************************)
(* Properties of the Manager's locking.                                    *)
(***************************************************************************)
\* C24: while an Execute is past its lookup, the record it looked up is
\* still in the loaded set and names the process the Execute calls, and
\* Unload and Shutdown have not killed that process.
C24_NoUseAcrossUnload ==
    \A t \in Callers :
        pc[t] \in {"exec_call", "exec_wait"}
        => /\ call[t].name \in DOMAIN plugins
           /\ plugins[call[t].name].Client = cli[t]
           /\ ~procs[cli[t]].killed

\* The steps inside the bodies of Load, Unload and Shutdown.
LifecycleSteps == LoadSteps \cup {"unload_shutdown", "unload_kill", "shutdown_each"}

InBody(t) == pc[t] \in LifecycleSteps

\* A step in which ListLoaded or GetLoaded of t reads the loaded set.
Reads(t) ==
    /\ pc[t] = "idle" /\ pc'[t] = "returned"
    /\ ret'[t].op \in {"ListLoaded", "GetLoaded"}

\* C25: at most one caller is inside the body of Load, Unload or Shutdown,
\* whatever the names, and it holds the exclusive lock; ListLoaded and
\* GetLoaded read the loaded set only while no caller is inside such a body.
C25_LifecycleExclusive ==
    /\ [](/\ Cardinality({t \in Callers : InBody(t)}) <= 1
          /\ \A t \in Callers : InBody(t) => mu = t)
    /\ [][\A t \in Callers : Reads(t) => \A u \in Callers : ~InBody(u)]_vars

\* C25 witness: a Shutdown is killing the plugins of a loaded set of two,
\* after the other caller has read the loaded set.
C25_Witness ==
    \E t \in Callers : \E u \in Callers \ {t} :
        /\ call[t].op = "Shutdown" /\ InBody(t)
        /\ Cardinality(DOMAIN plugins) = 2 /\ Cardinality(call[t].todo) = 1
        /\ pc[u] = "returned" /\ ret[u].op = "ListLoaded"
        /\ ret[u].val = DOMAIN plugins

\* C23: no two callers have an Execute in flight against one plugin process,
\* whether the calls come from a fire of the cron engine, from TriggerPlugin
\* or from both.
C23_ExecuteSerialized ==
    \A t \in Callers : \A u \in Callers \ {t} :
        (/\ frame[t].op \in {"fire", "TriggerPlugin"}
         /\ frame[u].op \in {"fire", "TriggerPlugin"}
         /\ pc[t] \in {"exec_call", "exec_wait"}
         /\ pc[u] \in {"exec_call", "exec_wait"})
        => cli[t] # cli[u]

\* The stages in which a method of the Daemon waits for Manager.Execute.
ExecStages == {"fire_wait", "tp_wait", "ro_wait", "rpo_wait"}

\* C26: every Execute the Daemon issues ends, whether or not the plugin
\* answers, and the method of the Daemon that issued it gets past it.
C26_ExecuteHasDeadline ==
    \A t \in Callers :
        (frame[t].stage \in ExecStages /\ pc[t] = "exec_wait")
        ~> (frame[t].stage \notin ExecStages)

\* The entries the cron engine holds for a plugin.
EntriesOf(name) == {e \in DOMAIN sched.entries : sched.entries[e].name = name}

\* C28: the cron engine holds at most one entry per plugin name, and none
\* once Stop has returned, so no plugin is fired twice for one tick.
C28_OneEntryPerPlugin ==
    /\ \A name \in Names : Cardinality(EntriesOf(name)) <= 1
    /\ HasReturned("cli", "Stop") => sched.entries = << >>

\* C29: when Start has returned, the plugins Start loaded are the plugins
\* that have a job in d.jobs, every job names a plugin of the loaded set, and
\* no plugin whose registration failed is left loaded.
C29_LoadedIffScheduled ==
    HasReturned("cli", "Start")
    => /\ \A n \in LoadedBy("cli") : n \in DOMAIN jobs
       /\ \A n \in DOMAIN jobs : n \in DOMAIN plugins /\ n \in LoadedBy("cli")
       /\ \A n \in DOMAIN plugins : n \in DOMAIN jobs \/ n \notin LoadedBy("cli")

(***************************************************************************)
(* Properties of the state store.                                          *)
(***************************************************************************)
\* C19 as stated: per plugin the state functions are a map from key to bytes.
\* A GetState that returns no error returns the value of the latest SetState
\* of that very key by that plugin that no DeleteState of the key followed,
\* and reports the key found; otherwise it reports the key not found.
\* DeleteState of a key that has no value returns nil.  Calls on other keys,
\* calls of other plugins and Unload and Load of the plugin in between change
\* none of this.
C19_StateIsMap ==
    LET k == <<kvret.name, kvret.key>>
        has == k \in DOMAIN written /\ written[k].set
    IN /\ (kvret.op = "GetState" /\ kvret.err = "")
          => /\ kvret.found = has
             /\ has => kvret.data = written[k].value
       /\ (kvret.op = "DeleteState" /\ kvret.path \notin DOMAIN files)
          => kvret.err = ""

\* s holds no separator and no ".." sequence.
NoTraversal(s) ==
    /\ \A i \in 1..Len(s) : s[i] # "/" /\ s[i] # "\\"
    /\ \A i \in 1..(Len(s) - 1) : ~(s[i] = "." /\ s[i + 1] = ".")

\* path names an entry of the directory dir itself.
DirectChild(path, dir) ==
    /\ Len(path) = Len(dir) + 1
    /\ SubSeq(path, 1, Len(dir)) = dir

\* C20: for the key of every GetState, SetState and DeleteState the sanitized
\* key holds no '/', no '\' and no "..", the path the call used is the entry
\* named by the sanitized key plus ".json" in the state directory of the
\* calling plugin, and every file the store holds is an entry of the state
\* directory of one plugin.
C20_KeyStaysInStateDir ==
    /\ kvret.calls > 0
       => /\ NoTraversal(sanitizeKey(kvret.key))
          /\ DirectChild(kvret.path, StateDir(kvret.name))
          /\ kvret.path[Len(kvret.path)] = sanitizeKey(kvret.key) \o JsonExt
    /\ \A p \in DOMAIN files :
          \E name \in StatePlugins : DirectChild(p, StateDir(name))

\* C20 witness: a SetState whose key holds a separator or ".." has written
\* its file, and a call with another such key was served before it.
C20_Witness ==
    /\ kvret.calls = MaxStateCalls
    /\ kvret.op = "SetState" /\ kvret.err = ""
    /\ ~NoTraversal(kvret.key)
    /\ kvret.path \in DOMAIN files
    /\ \E k \in DOMAIN written : k[2] # kvret.key /\ ~NoTraversal(k[2])

(***************************************************************************)
(* Properties of the import state machine.                              *)
(***************************************************************************)
\* The identifiers a list of ExecuteItems reports with one of some actions.
IdsWith(results, actions) ==
    {results[j].ID : j \in {k \in DOMAIN results : results[k].Action \in actions}}

CountAction(results, action) ==
    Cardinality({j \in DOMAIN results : results[j].Action = action})

\* An Execute has returned the result of a complete pass over the notes.
PassDone == run.pc = "done" /\ run.result.Success

\* The run that has just ended followed a run over the same, unedited notes.
SecondRun == PassDone /\ prev.exists /\ prev.success /\ ~prev.changed

\* C3 as stated: the second of two Executes (dry-run=false) over the same
\* unchanged notes reports no item imported and every item skipped.
C3_Original ==
    (SecondRun /\ ~run.dryRun /\ ~prev.dryRun)
    => /\ run.result.Summary.ItemsImported = 0
       /\ \A j \in DOMAIN run.result.Results : run.result.Results[j].Action = "skipped"

\* C3: when the first run's state write and the second run's state read
\* succeed, the second of two Executes (dry-run=false) over the same unchanged
\* notes skips every item the first reported imported or skipped, and attempts
\* again (imported or failed) exactly the items the first reported failed.
C3_Idempotence ==
    (SecondRun /\ ~run.dryRun /\ ~prev.dryRun /\ prev.saved /\ run.loaded)
    => /\ IdsWith(run.result.Results, {"skipped"})
            = IdsWith(prev.results, {"imported", "skipped"})
       /\ IdsWith(run.result.Results, {"imported", "failed"})
            = IdsWith(prev.results, {"failed"})

\* C3 witness: after an Unload and Load of the plugin, a second run over two
\* notes the first run imported has reported both skipped.
C3_Witness ==
    /\ SecondRun /\ ~run.dryRun /\ ~prev.dryRun /\ prev.saved /\ run.loaded
    /\ prev.reloaded
    /\ IdsWith(prev.results, {"imported"}) # {}
    /\ Len(run.notes) = MaxNotes
    /\ run.result.Summary.ItemsSkipped = MaxNotes

\* The part of C4 on the dry run itself: no creating or state-writing
\* callback is made, and the state file and the store stay as they were.
DryRunPure ==
    (run.pc # "idle" /\ run.dryRun)
    => /\ run.calls = {}
       /\ stateFile = run.fileAtStart
       /\ <<areas, projects, tasks>> = run.storeAtStart

\* C4 as stated: a dry run is pure, and the Execute (dry-run=false) that
\* follows it over the same notes imports exactly the items the dry run
\* reported imported.
C4_Original ==
    /\ DryRunPure
    /\ (SecondRun /\ ~run.dryRun /\ prev.dryRun)
       => IdsWith(run.result.Results, {"imported"}) = IdsWith(prev.results, {"imported"})

\* C4: a dry run is pure, and the Execute (dry-run=false) that follows it over
\* the same notes, when both runs read the persisted state, skips the items
\* the dry run skipped and attempts exactly the items the dry run reported
\* imported, reporting each imported or failed.
C4_DryRunPurity ==
    /\ DryRunPure
    /\ (SecondRun /\ ~run.dryRun /\ prev.dryRun /\ prev.loaded /\ run.loaded)
       => /\ IdsWith(run.result.Results, {"imported", "failed"})
               = IdsWith(prev.results, {"imported"})
          /\ IdsWith(run.result.Results, {"skipped"}) = IdsWith(prev.results, {"skipped"})

\* C4 witness: a run has imported the one note a preceding dry run had
\* reported imported and skipped the one it had reported skipped.
C4_Witness ==
    /\ SecondRun /\ ~run.dryRun /\ prev.dryRun /\ prev.loaded /\ run.loaded
    /\ IdsWith(prev.results, {"imported"}) # {}
    /\ IdsWith(prev.results, {"skipped"}) # {}
    /\ IdsWith(run.result.Results, {"imported"}) = IdsWith(prev.results, {"imported"})
    /\ "CreateProject" \in run.calls

\* The notes of the run whose categorization returned an error or whose area
\* or project could not be found or created.
MadeToFail == {j \in DOMAIN run.trace : run.trace[j].cat = "error" \/ run.trace[j].failedAt # ""}

\* The notes of the run whose area or project could not be found or created.
FailedInCreation == {j \in DOMAIN run.trace : run.trace[j].failedAt # ""}

\* What C5 promises of a pass in which the notes of bad, and only they, failed.
Resilient(bad) ==
    /\ run.result.Summary.ItemsProcessed = Len(run.notes)
    /\ Len(run.result.Results) = Len(run.notes)
    /\ run.result.Summary.ItemsFailed = 1
    /\ \A j \in DOMAIN run.result.Results :
          IF j \in bad THEN run.result.Results[j].Action = "failed"
          ELSE run.result.Results[j].Action \in {"imported", "skipped"}

\* C5 as stated: when exactly one note fails in categorization or in area or
\* project creation, the pass reports all notes processed, that one failed and
\* each other imported or skipped.
C5_Original ==
    (PassDone /\ ~run.dryRun /\ Cardinality(MadeToFail) = 1) => Resilient(MadeToFail)

\* C5: when exactly one note fails in area or project creation, the pass
\* reports all notes processed, that one failed and each other imported or
\* skipped; a categorization error alone fails no note.
C5_BatchResilience ==
    /\ (PassDone /\ ~run.dryRun /\ Cardinality(FailedInCreation) = 1)
       => Resilient(FailedInCreation)
    /\ (PassDone /\ FailedInCreation = {}) => run.result.Summary.ItemsFailed = 0

\* C5 witness: the first of the notes failed in area creation and the pass
\* went on to import the last.
C5_Witness ==
    /\ PassDone /\ ~run.dryRun
    /\ Len(run.notes) = MaxNotes
    /\ FailedInCreation = {1}
    /\ run.trace[1].failedAt = "area"
    /\ run.result.Results[MaxNotes].Action = "imported"

\* C6 as stated: whatever CategorizeWithContext and ExtractTasks return, with
\* or without an LLM client, the host's callback handler does not abort, the
\* plugin's Execute does not abort, and a note whose area and project were
\* found or created is reported imported.
C6_NoAIHardFailure ==
    /\ hostAlive
    /\ run.pc # "aborted"
    /\ \A j \in DOMAIN run.trace :
          (run.trace[j].cat # "none" /\ run.trace[j].failedAt = "")
          => run.result.Results[j].Action = "imported"

\* The documented default categorization of a note; confidence in tenths.
DefaultCategorization(note) ==
    [Area |-> <<"p", "e", "r", "s", "o", "n", "a", "l">>, AreaConfidence |-> 5,
     ProjectID |-> 0, ProjectSuggestion |-> note.Name, IsActionable |-> FALSE]

\* C7: when CategorizeWithContext returns an error for a note, the
\* categorization used is the default one (area "personal", confidence 0.5,
\* not actionable, project suggestion the note's name, no project id); the
\* area found or created for it is the personal one, the project it is filed
\* under matches the note's name, and ExtractTasks is not called.
C7_FallbackCategorization ==
    [][ LET note == run.notes[run.i] IN
        /\ (run.pc = "categorize" /\ run'.pc = "area" /\ run'.cur.cat = "error")
           => run'.cur.used = DefaultCategorization(note)
        /\ (run.pc \in {"area", "project"} /\ run.cur.cat = "error")
           => /\ run.cur.used = DefaultCategorization(note)
              /\ run'.pc # "tasks"
        /\ (run.pc = "area" /\ run.cur.cat = "error" /\ run'.pc = "project")
           => /\ slugify(run'.area.Title) = <<"p", "e", "r", "s", "o", "n", "a", "l">>
              /\ \E k \in DOMAIN areas' : areas'[k] = run'.area
        /\ (run.pc = "project" /\ run.cur.cat = "error" /\ run'.pc = "loop"
              /\ run'.result.Results[run.i].Action = "imported")
           => \E k \in DOMAIN projects' :
                 /\ projects'[k].AreaID = run.area.ID
                 /\ slugify(projects'[k].Title) = slugify(note.Name)
                 /\ run'.trace[run.i].extract = "not called"
      ]_vars

\* C7 witness: a note whose categorization returned an error has been
\* imported into a project of its name in the personal area.
C7_Witness ==
    /\ run.pc = "loop"
    /\ \E j \in DOMAIN run.trace :
          /\ run.trace[j].cat = "error"
          /\ run.trace[j].extract = "not called"
          /\ run.result.Results[j].Action = "imported"
          /\ \E a \in DOMAIN areas, p \in DOMAIN projects :
                /\ areas[a].Title = Personal
                /\ projects[p].AreaID = areas[a].ID
                /\ projects[p].Title = run.notes[j].Name

\* The item-to-hash map the run loaded at its start, and the persisted one.
LoadedMap == StateGet(run.fileAtStart, run.loaded).ProcessedNotes
PersistedMap == Unmarshal(stateFile[1]).ProcessedNotes

\* The notes the run reported imported.
ImportedNow == IdsWith(run.result.Results, {"imported"})

\* C27: when a run that is not a dry run has written its state, the
\* persisted map holds for every note imported in the run the hash of the
\* note's current content, which the loaded map did not hold, and for every
\* other identifier (failed, skipped or not among the notes) the entry of
\* the loaded map or none; a run that ends with a top-level error leaves
\* the state file as it was.
C27_StateFrame ==
    /\ (run.pc = "done" /\ run.saved)
       => /\ \A j \in DOMAIN run.notes :
                run.notes[j].ID \in ImportedNow
                => /\ run.notes[j].ID \in DOMAIN PersistedMap
                   /\ PersistedMap[run.notes[j].ID] = hashContent(run.notes[j].Content)
                   /\ \/ run.notes[j].ID \notin DOMAIN LoadedMap
                      \/ LoadedMap[run.notes[j].ID] # PersistedMap[run.notes[j].ID]
          /\ \A id \in (DOMAIN PersistedMap \cup DOMAIN LoadedMap) \ ImportedNow :
                /\ id \in DOMAIN PersistedMap /\ id \in DOMAIN LoadedMap
                /\ PersistedMap[id] = LoadedMap[id]
    /\ (run.pc = "done" /\ ~run.result.Success) => stateFile = run.fileAtStart

\* C27 witness: a run that loaded a stored entry has written its state
\* after importing one note and failing on another.
C27_Witness ==
    /\ run.pc = "done" /\ run.saved /\ run.loaded
    /\ DOMAIN LoadedMap # {}
    /\ ImportedNow # {}
    /\ IdsWith(run.result.Results, {"failed"}) # {}

\* C8: in every ExecuteResult the imported, skipped and failed counters sum to
\* at most the processed counter; once the pass is complete they sum to it,
\* the result has one item per note in the order of the notes, and the number
\* of items of each action is the counter of that action.
C8_ResultCounts ==
    LET s == run.result.Summary
        R == run.result.Results
    IN /\ s.ItemsImported + s.ItemsSkipped + s.ItemsFailed <= s.ItemsProcessed
       /\ PassDone
          => /\ s.ItemsImported + s.ItemsSkipped + s.ItemsFailed = s.ItemsProcessed
             /\ Len(R) = Len(run.notes)
             /\ \A j \in DOMAIN R : R[j].ID = run.notes[j].ID /\ R[j].Name = run.notes[j].Name
             /\ CountAction(R, "imported") = s.ItemsImported
             /\ CountAction(R, "skipped") = s.ItemsSkipped
             /\ CountAction(R, "failed") = s.ItemsFailed

\* C8 witness: a complete pass over the notes with one imported and one failed.
C8_Witness ==
    /\ PassDone
    /\ run.result.Summary.ItemsProcessed = MaxNotes
    /\ run.result.Summary.ItemsImported >= 1
    /\ run.result.Summary.ItemsFailed >= 1

(***************************************************************************)
(* FindOrCreateArea as plugins call it over the callback channel: a list   *)
(* step, the match loop and a create step, the calls of two plugins        *)
(* interleaved.  The store's reads and writes succeed here.                *)
(***************************************************************************)
\* FindOrCreateArea calls in one behaviour.
MaxFindCalls == 3

\* The plugins that call, and the names they ask for.
FocPlugins == {"notes", "obsidian"}
FocNames == {<<"w">>, <<"W">>, <<"a", " ", "b">>, <<"A", "-", "B">>, <<"!">>}

toUpperRune(r) ==
    IF \E i \in DOMAIN LowerCase : LowerCase[i] = r
    THEN UpperCase[CHOOSE i \in DOMAIN LowerCase : LowerCase[i] = r]
    ELSE r

\* cases.Title(language.English).String(s): the first letter of each word in
\* upper case, the other letters in lower case.
titleCase(s) ==
    [i \in 1..Len(s) |->
        IF i = 1 \/ toLowerRune(s[i - 1]) \notin SlugRunes \ {"-"}
        THEN toUpperRune(s[i])
        ELSE toLowerRune(s[i])]

\* HostClient.FindOrCreateArea: list, return the first match, else create
\* with the title-cased name.  strings.EqualFold and Area.Slug agree with
\* stringsEqualFold and slugify on the runes of the model.
HostClient_FindOrCreateArea(as, name, ok) ==
    IF ~ok THEN AreaResult("io error", NoArea, as, FALSE)
    ELSE IF Matches(as, name) # << >>
    THEN AreaResult("", Head(Matches(as, name)), as, FALSE)
    ELSE CreateArea(as, titleCase(name))

\* os.MkdirAll and WriteAreaToFile: the area file of the slug's directory
\* holds the area, whatever it held before.
PutArea(as, a) ==
    InsertBySlug(SelectSeq(as, LAMBDA e : slugify(e.Title) # slugify(a.Title)), a)

IdleCall ==
    [pc |-> "idle", name |-> << >>, seen |-> << >>, area |-> NoArea, err |-> "",
     created |-> FALSE, overlap |-> FALSE]

FocIdle == foc = [call |-> [p \in FocPlugins |-> IdleCall], ids |-> 0, left |-> 0]

FocInit == foc = [call |-> [p \in FocPlugins |-> IdleCall], ids |-> 0, left |-> MaxFindCalls]

InFlight(p) == foc.call[p].pc \in {"listed", "creating"}

FocDone(p, area, err, created) ==
    foc' = [foc EXCEPT !.call[p].pc = "done", !.call[p].area = area,
                       !.call[p].err = err, !.call[p].created = created]

\* grpcHostClient.FindOrCreateArea up to the return of c.ListAreas: the
\* plugin holds the areas as the store lists them now.
FocList(p, name) ==
    /\ foc.left > 0
    /\ ~InFlight(p)
    /\ foc' = [foc EXCEPT
                 !.left = @ - 1,
                 !.call = [q \in FocPlugins |->
                    IF q = p
                    THEN [IdleCall EXCEPT !.pc = "listed", !.name = name, !.seen = areas,
                                          !.overlap = \E r \in FocPlugins \ {p} : InFlight(r)]
                    ELSE IF InFlight(q) THEN [foc.call[q] EXCEPT !.overlap = TRUE]
                    ELSE foc.call[q]]]
    /\ UNCHANGED areas

\* The match loop over the areas listed: the first match is returned.
FocFound(p) ==
    /\ foc.call[p].pc = "listed"
    /\ Matches(foc.call[p].seen, foc.call[p].name) # << >>
    /\ FocDone(p, Head(Matches(foc.call[p].seen, foc.call[p].name)), "", FALSE)
    /\ UNCHANGED areas

\* No match: c.CreateArea, HostClient.CreateArea and AreaRepo.Create up to
\* its os.Stat of the slug's directory, on the store as it is now.
FocStat(p) ==
    /\ foc.call[p].pc = "listed"
    /\ Matches(foc.call[p].seen, foc.call[p].name) = << >>
    /\ IF foc.call[p].name = << >>
       THEN FocDone(p, NoArea, "area title is required", FALSE)
       ELSE IF \/ slugify(foc.call[p].name) = << >>
               \/ \E i \in DOMAIN areas :
                     slugify(areas[i].Title) = slugify(foc.call[p].name)
       THEN FocDone(p, NoArea, "already exists", FALSE)
       ELSE foc' = [foc EXCEPT !.call[p].pc = "creating"]
    /\ UNCHANGED areas

\* The rest of AreaRepo.Create: the directory and the area file written,
\* the area returned to the plugin.
FocWrite(p) ==
    /\ foc.call[p].pc = "creating"
    /\ LET a == [ID |-> foc.ids + 1, Title |-> foc.call[p].name]
       IN /\ areas' = PutArea(areas, a)
          /\ foc' = [foc EXCEPT !.ids = @ + 1, !.call[p].pc = "done",
                                !.call[p].area = a, !.call[p].created = TRUE]

impRest == <<vault, llm, hostAlive, stateFile, projects, tasks, run, prev, nruns, faults>>

FocNext ==
    \/ \E p \in FocPlugins, name \in FocNames :
          FocList(p, name) /\ UNCHANGED <<mgrVars, impRest, dmnVars, kvVars>>
    \/ \E p \in FocPlugins : FocFound(p) /\ UNCHANGED <<mgrVars, impRest, dmnVars, kvVars>>
    \/ \E p \in FocPlugins : FocStat(p) /\ UNCHANGED <<mgrVars, impRest, dmnVars, kvVars>>
    \/ \E p \in FocPlugins : FocWrite(p) /\ UNCHANGED <<mgrVars, impRest, dmnVars, kvVars>>

(***************************************************************************)
(* Properties of find-or-create.                                           *)
(***************************************************************************)
\* A call that has returned and shared no time with a call of the other plugin.
ReturnedAlone(p) == foc.call[p].pc = "done" /\ ~foc.call[p].overlap

NoMatch(p) == Matches(foc.call[p].seen, foc.call[p].name) = << >>

\* C21: a FindOrCreateArea call that ran alone returns the first area that
\* matches the name by slug or by title and creates nothing, or, when no
\* area matches, creates one area with success; and no two areas of the
\* store have one slug.
C21_FindOrCreateIdempotent ==
    /\ \A p \in FocPlugins :
          ReturnedAlone(p)
          => IF NoMatch(p)
             THEN /\ foc.call[p].err = ""
                  /\ foc.call[p].created
                  /\ \E i \in DOMAIN areas : areas[i] = foc.call[p].area
             ELSE /\ foc.call[p].err = ""
                  /\ ~foc.call[p].created
                  /\ foc.call[p].area = Head(Matches(foc.call[p].seen, foc.call[p].name))
    /\ \A i, j \in DOMAIN areas :
          slugify(areas[i].Title) = slugify(areas[j].Title) => i = j

\* C22: for a call of a plugin that ran alone, HostClient.FindOrCreateArea
\* on the areas the plugin listed decides as the plugin-side client did
\* whether to create, and an area created has the title-cased name as its
\* title on both sides.
C22_SameTitleAsHost ==
    \A p \in FocPlugins :
       (ReturnedAlone(p) /\ foc.call[p].err = "")
       => LET h == HostClient_FindOrCreateArea(foc.call[p].seen, foc.call[p].name, TRUE)
          IN /\ h.err = ""
             /\ h.created = foc.call[p].created
             /\ h.area.Title = foc.call[p].area.Title
             /\ foc.call[p].created => foc.call[p].area.Title = titleCase(foc.call[p].name)

\* C30: when the calls of two plugins that shared time, with names of one
\* slug (a slug that is not empty) that matched no area either of them
\* listed, have returned, both have succeeded and both have returned the
\* same area.
C30_ConcurrentBothSucceed ==
    \A p, q \in FocPlugins :
       (/\ p # q
        /\ foc.call[p].pc = "done" /\ foc.call[q].pc = "done"
        /\ foc.call[p].overlap /\ foc.call[q].overlap
        /\ slugify(foc.call[p].name) = slugify(foc.call[q].name)
        /\ slugify(foc.call[p].name) # << >>
        /\ NoMatch(p) /\ NoMatch(q))
       => /\ foc.call[p].err = "" /\ foc.call[q].err = ""
          /\ foc.call[p].area = foc.call[q].area

\* No plugin has stored state.
KvIdle ==
    /\ files = << >>
    /\ written = << >>
    /\ kvret = NoKvRet

\* The Manager with its callers; no import is running.
Init == MgrInit /\ ImpIdle /\ DmnOff /\ KvIdle /\ FocIdle

Spec == Init /\ [][MgrNext]_vars

\* One plugin process executing imports; the Manager is at rest.
InitDaemon == MgrInit /\ ImpIdle /\ DmnInit /\ KvIdle /\ FocIdle

SpecDaemon == InitDaemon /\ [][DmnNext]_vars

\* The Daemon with time passing: a deadline that is set expires, and the
\* Daemon goes on when a call of the Manager has returned.  Nothing makes a
\* plugin answer.
InitDeadline == MgrInit /\ ImpIdle /\ DmnInit /\ KvIdle /\ FocIdle

SpecDeadline ==
    /\ InitDeadline /\ [][DmnNext]_vars
    /\ \A t \in Callers :
          /\ WF_vars(ExecExpire(t) /\ UNCHANGED <<impVars, dmnVars, kvVars, focVars>>)
          /\ WF_vars((FireDone(t) \/ TriggerDone(t) \/ RunOnceExecuted(t) \/ RunPluginExecuted(t))
                       /\ UNCHANGED <<impVars, kvVars, focVars>>)

InitImport == MgrInit /\ ImpInit /\ DmnOff /\ KvIdle /\ FocIdle

SpecImport == InitImport /\ [][ImpNext]_vars

\* A Daemon that is started, stopped and started again.
InitRestart == MgrInit /\ ImpIdle /\ DmnRestartInit /\ KvIdle /\ FocIdle

SpecRestart == InitRestart /\ [][RestartNext]_vars

\* The Manager at rest; the plugins it loads store state.
InitState == MgrInit /\ ImpIdle /\ DmnOff /\ KvIdle /\ FocIdle

SpecState == InitState /\ [][KvNext]_vars

\* Two plugins loaded and configured; nothing stored yet.
InitKeys == MgrLoaded /\ ImpIdle /\ DmnOff /\ KvIdle /\ FocIdle

SpecKeys == InitKeys /\ [][KeysNext]_vars

\* Two plugins calling FindOrCreateArea on an initialized, empty store.
InitFind == MgrInit /\ ImpIdle /\ DmnOff /\ KvIdle /\ FocInit

SpecFind == InitFind /\ [][FocNext]_vars
====
